---- MODULE Spec2Model ----
(***************************************************************************)
(* Allocation core of the CPU control plane daemon (package cpudaemon,     *)
(* package numautils, package ctlplaneapi).  The daemon keeps a            *)
(* DaemonState (AvailableCPUs, Allocated, Pods, Topology), drives one of   *)
(* four allocators through the static policy, and serves CreatePod,        *)
(* UpdatePod and DeletePod.                                                *)
(***************************************************************************)
EXTENDS Integers, Sequences, FiniteSets, TLC

VARIABLES
    allocator,   \* which Allocator the StaticPolicy wraps (cmd/ctlplane.go getAllocator)
    state,       \* Daemon.state : DaemonState
    nsalloc,     \* NumaPerNamespaceAllocator fields NamespaceToBucket, BucketToNumContainers, globalBucket
    inflight,    \* requests of the UpdatePod calls that passed the unlocked check of Pods and wait for stateMu
    last,        \* the request that returned last: kind, pod id, reply error and resources, policy calls it made
    nreq,        \* number of requests that have returned
    disk,        \* content of the state file at DaemonState.StatePath
    stateMu,     \* Daemon.stateMu : the requests that hold the mutex (none, or one)
    agent,       \* Agent : addedPods, numConsecutiveUnsuccessfulAttempts, and whether klog.Fatal ended the process
    events       \* the pod events the agent has handled, each with the RPC it issued

vars == <<allocator, state, nsalloc, inflight, last, nreq, disk, stateMu, agent, events>>

----------------------------------------------------------------------------
(* Bounds of the model *)

\* largest CPU count a Guaranteed container asks for
MaxGuaranteedCpus == 1
\* number of requests the daemon serves
MaxRequests == 3
\* UpdatePod calls waiting for the lock at the same time
MaxInflight == 1

----------------------------------------------------------------------------
(* Generic helpers for Go maps and slices *)

EmptyMap == [x \in {} |-> 0]

MapPut(m, k, v) == [x \in (DOMAIN m) \cup {k} |-> IF x = k THEN v ELSE m[x]]

MapDel(m, k) == [x \in (DOMAIN m) \ {k} |-> m[x]]

\* m[k] of a Go map: the zero value when the key is absent
MapGet(m, k, zero) == IF k \in DOMAIN m THEN m[k] ELSE zero

Range(s) == {s[i] : i \in DOMAIN s}

RECURSIVE SortedSeq(_)
SortedSeq(S) ==
    IF S = {} THEN <<>>
    ELSE LET m == CHOOSE x \in S : \A y \in S : x <= y
         IN <<m>> \o SortedSeq(S \ {m})

Min(a, b) == IF a < b THEN a ELSE b

----------------------------------------------------------------------------
(* The machine: 2 NUMA nodes with 2 CPUs each; package, die and core do    *)
(* not discriminate CPUs and are elided from the tree.                     *)

CpuInformation ==
    << [Cpu |-> 0, Node |-> 0], [Cpu |-> 1, Node |-> 0],
       [Cpu |-> 2, Node |-> 1], [Cpu |-> 3, Node |-> 1] >>

CpuIds == {CpuInformation[i].Cpu : i \in DOMAIN CpuInformation}

\* Tree nodes are named by their path of values from the machine node.
TreeRoot == <<>>

NodeOf(i) == <<CpuInformation[i].Node>>

LeafOf(i) == <<CpuInformation[i].Node, CpuInformation[i].Cpu>>

TreeNodes == {TreeRoot} \cup {NodeOf(i) : i \in DOMAIN CpuInformation}
                        \cup {LeafOf(i) : i \in DOMAIN CpuInformation}

\* TopologyNode.append: children in order of first appearance in the cpu list
RECURSIVE ChildrenFrom(_, _, _)
ChildrenFrom(node, i, acc) ==
    IF i > Len(CpuInformation) THEN acc
    ELSE LET leaf == LeafOf(i)
             isBelow == Len(leaf) > Len(node) /\ SubSeq(leaf, 1, Len(node)) = node
             child == IF isBelow THEN SubSeq(leaf, 1, Len(node) + 1) ELSE <<>>
         IN IF isBelow /\ child \notin Range(acc)
            THEN ChildrenFrom(node, i + 1, Append(acc, child))
            ELSE ChildrenFrom(node, i + 1, acc)

ChildrenMap == [n \in TreeNodes |-> ChildrenFrom(n, 1, <<>>)]

Children(node) == ChildrenMap[node]

IsLeaf(node) == Children(node) = <<>>

\* nodeInfo.Value of a tree node
Value(node) == node[Len(node)]

\* NumAvailable after cpuInfoToTopology: leaves 1, inner nodes the number of appended cpus
NewTopology ==
    [n \in TreeNodes |->
        Cardinality({i \in DOMAIN CpuInformation :
                        SubSeq(LeafOf(i), 1, Len(n)) = n})]

RECURSIVE GetLeafsFrom(_, _)
GetLeafsFrom(queue, leafs) ==
    IF queue = <<>> THEN leafs
    ELSE LET node == Head(queue)
         IN IF IsLeaf(node)
            THEN GetLeafsFrom(Tail(queue), Append(leafs, node))
            ELSE GetLeafsFrom(Tail(queue) \o Children(node), leafs)

GetLeafs == GetLeafsFrom(<<TreeRoot>>, <<>>)

Available(t, node) == t[node] > 0

\* TopologyNode.Take on a leaf: only the leaf's own counter is decremented
LeafTake(t, leaf) == [t EXCEPT ![leaf] = @ - 1]

NoNode == <<-1>>

RECURSIVE findLowestNodeWithEnoughAvailability(_, _, _, _)
RECURSIVE findLowestAmongChildren(_, _, _, _, _, _)

\* a search among the children that keeps the last of the equally deep nodes
RECURSIVE findLowestAmongChildrenLast(_, _, _, _, _, _)
findLowestAmongChildrenLast(t, kids, i, n, level, best) ==
    IF i > Len(kids) THEN best
    ELSE LET Lower(r) == IF r.node # NoNode /\ r.level >= best.level THEN r ELSE best
         IN findLowestAmongChildrenLast(t, kids, i + 1, n, level,
                Lower(findLowestNodeWithEnoughAvailability(t, kids[i], n, level + 1)))

\* the loop over t.Children in findLowestNodeWithEnoughAvailability
findLowestAmongChildren(t, kids, i, n, level, best) ==
    IF i > Len(kids) THEN best
    ELSE LET Lower(r) == IF r.node # NoNode /\ r.level > best.level THEN r ELSE best
         IN findLowestAmongChildren(t, kids, i + 1, n, level,
                Lower(findLowestNodeWithEnoughAvailability(t, kids[i], n, level + 1)))

findLowestNodeWithEnoughAvailability(t, node, n, currentLevel) ==
    IF t[node] < n THEN [node |-> NoNode, level |-> -1]
    ELSE LET OrThisNode(best) ==
                 IF best.node = NoNode
                 THEN [node |-> node, level |-> currentLevel]
                 ELSE best
         IN OrThisNode(findLowestAmongChildren(t, Children(node), 1, n, currentLevel,
                                               [node |-> NoNode, level |-> 0]))

RECURSIVE takeLeaves(_, _, _)
RECURSIVE takeLeavesFromChildren(_, _, _, _, _, _)
takeLeavesFromChildren(t, node, kids, i, n, leaves) ==
    IF i > Len(kids) THEN [t |-> t, leaves |-> leaves, err |-> FALSE]
    ELSE IF t[kids[i]] = 0 THEN takeLeavesFromChildren(t, node, kids, i + 1, n, leaves)
    ELSE LET leavesToTake == Min(n - Len(leaves), t[kids[i]])
             Taken(r) ==
                 IF r.err THEN [t |-> r.t, leaves |-> <<node>>, err |-> TRUE]
                 ELSE IF Len(leaves \o r.leaves) = n
                      THEN [t |-> r.t, leaves |-> leaves \o r.leaves, err |-> FALSE]
                      ELSE takeLeavesFromChildren(r.t, node, kids, i + 1, n,
                                                  leaves \o r.leaves)
         IN Taken(takeLeaves(t, kids[i], leavesToTake))

\* a takeLeaves that refuses to take the last available leaves of a node
takeLeavesKeepsOne(t, node, n) ==
    IF n >= t[node] THEN [t |-> t, leaves |-> <<>>, err |-> TRUE]
    ELSE IF IsLeaf(node) THEN [t |-> [t EXCEPT ![node] = 0], leaves |-> <<node>>, err |-> FALSE]
    ELSE LET Taken(r) ==
                 IF r.err THEN r
                 ELSE [t |-> [r.t EXCEPT ![node] = @ - n], leaves |-> r.leaves, err |-> FALSE]
         IN Taken(takeLeavesFromChildren(t, node, Children(node), 1, n, <<>>))

\* TopologyNode.takeLeaves

takeLeaves(t, node, n) ==
    IF n > t[node] THEN [t |-> t, leaves |-> <<>>, err |-> TRUE]
    ELSE IF IsLeaf(node) THEN [t |-> [t EXCEPT ![node] = 0], leaves |-> <<node>>, err |-> FALSE]
    ELSE LET Taken(r) ==
                 IF r.err THEN r
                 ELSE [t |-> [r.t EXCEPT ![node] = @ - n], leaves |-> r.leaves, err |-> FALSE]
         IN Taken(takeLeavesFromChildren(t, node, Children(node), 1, n, <<>>))

\* TopologyNode.find: the path from the first matching node (depth first) up to the start node
RECURSIVE find(_, _)
RECURSIVE findInChildren(_, _, _, _)
findInChildren(node, kids, i, targets) ==
    IF i > Len(kids) THEN <<>>
    ELSE LET Found(path) ==
                 IF Len(path) > 0 THEN Append(path, node)
                 ELSE findInChildren(node, kids, i + 1, targets)
         IN Found(find(kids[i], targets))

find(node, targets) ==
    IF node \in targets THEN <<node>>
    ELSE findInChildren(node, Children(node), 1, targets)

LeavesWithValue(cpuID) == {n \in TreeNodes : IsLeaf(n) /\ n # TreeRoot /\ Value(n) = cpuID}

RECURSIVE AddOnPath(_, _, _)
AddOnPath(t, path, d) ==
    IF path = <<>> THEN t
    ELSE AddOnPath([t EXCEPT ![Head(path)] = @ + d], Tail(path), d)

\* NumaTopology.Take
TopologyTake(t, n) ==
    LET Taken(l, r) ==
            LET Result(t2) ==
                    IF r.err THEN [t |-> t2, cpus |-> <<>>, err |-> TRUE]
                    ELSE [t |-> t2, cpus |-> [i \in DOMAIN r.leaves |-> Value(r.leaves[i])],
                          err |-> FALSE]
            IN Result(IF l # TreeRoot
                      THEN AddOnPath(r.t, Tail(find(TreeRoot, {l})), 0 - n)
                      ELSE r.t)
        From(l) ==
            IF l = NoNode THEN [t |-> t, cpus |-> <<>>, err |-> TRUE]
            ELSE Taken(l, takeLeaves(t, l, n))
    IN From(findLowestNodeWithEnoughAvailability(t, TreeRoot, n, 0).node)

\* a Return that does not look whether the leaf is taken
TopologyReturnAlways(t, cpuID) ==
    LET OnPath(path) ==
            IF Len(path) = 0 THEN [t |-> t, err |-> TRUE]
            ELSE [t |-> AddOnPath(t, path, 1), err |-> FALSE]
    IN OnPath(find(TreeRoot, LeavesWithValue(cpuID)))

\* NumaTopology.Return
TopologyReturn(t, cpuID) ==
    LET OnPath(path) ==
            IF Len(path) = 0 THEN [t |-> t, err |-> TRUE]
            ELSE IF t[path[1]] = 0 THEN [t |-> AddOnPath(t, path, 1), err |-> FALSE]
            ELSE [t |-> t, err |-> FALSE]
    IN OnPath(find(TreeRoot, LeavesWithValue(cpuID)))

----------------------------------------------------------------------------
(* Requests, containers and QoS *)

Guaranteed == "Guaranteed"
BestEffort == "BestEffort"
Burstable == "Burstable"

\* containerFromRequest
containerFromRequest(req, podID) ==
    LET r == req.Resources
        qs == IF r.RequestedCpus = r.LimitCpus /\ r.RequestedMemory = r.LimitMemory
                 /\ r.RequestedCpus > 0
              THEN Guaranteed
              ELSE IF r.RequestedCpus < r.LimitCpus \/ r.RequestedMemory < r.LimitMemory
                   THEN Burstable
                   ELSE BestEffort
    IN [CID |-> req.ContainerId, PID |-> podID, Name |-> req.ContainerName,
        Cpus |-> r.RequestedCpus, QS |-> qs]

\* ValidateResourceInfo
ValidateResourceInfo(info) ==
    /\ info.RequestedCpus >= 0 /\ info.LimitCpus >= 0
    /\ info.RequestedMemory >= 0 /\ info.LimitMemory >= 0
    /\ ~(info.LimitCpus < info.RequestedCpus)
    /\ ~(info.LimitMemory < info.RequestedMemory)

\* ValidateContainers
ValidateContainers(containers) ==
    \A i \in DOMAIN containers :
        /\ containers[i].ContainerId # ""
        /\ containers[i].ContainerName # ""
        /\ ValidateResourceInfo(containers[i].Resources)

\* ValidateCreatePodRequest
ValidateCreatePodRequest(req) ==
    /\ Len(req.Containers) # 0
    /\ req.PodId # "" /\ req.PodName # "" /\ req.PodNamespace # ""
    /\ ValidateResourceInfo(req.Resources)
    /\ ValidateContainers(req.Containers)

\* ValidateDeletePodRequest
ValidateDeletePodRequest(req) == req.PodId # ""

\* ValidateUpdatePodRequest
ValidateUpdatePodRequest(req) ==
    /\ Len(req.Containers) # 0
    /\ req.PodId # ""
    /\ ValidateResourceInfo(req.Resources)
    /\ ValidateContainers(req.Containers)

----------------------------------------------------------------------------
(* CPU sets and buckets *)

\* CPUSetFromBucketList
RECURSIVE CPUSetFromBucketList(_)
CPUSetFromBucketList(buckets) ==
    IF buckets = <<>> THEN {}
    ELSE (Head(buckets).StartCPU .. Head(buckets).EndCPU)
            \cup CPUSetFromBucketList(Tail(buckets))

\* CPUSet.ToBucketList: singleton buckets sorted by cpu id
ToBucketList(cpus) ==
    LET sorted == SortedSeq(cpus)
    IN [i \in DOMAIN sorted |-> [StartCPU |-> sorted[i], EndCPU |-> sorted[i]]]

\* the cpu ids of a bucket list in list order, as the free loops visit them
RECURSIVE CpusOfBuckets(_)
CpusOfBuckets(buckets) ==
    IF buckets = <<>> THEN <<>>
    ELSE LET b == Head(buckets)
         IN [i \in 1..(IF b.EndCPU >= b.StartCPU THEN b.EndCPU - b.StartCPU + 1 ELSE 0)
                |-> b.StartCPU + i - 1] \o CpusOfBuckets(Tail(buckets))

SingletonBuckets(cpuIds) ==
    [i \in DOMAIN cpuIds |-> [StartCPU |-> cpuIds[i], EndCPU |-> cpuIds[i]]]

----------------------------------------------------------------------------
(* Allocators.  Every operation returns the DaemonState s, the             *)
(* per-namespace allocator fields a and the error ("nil" for none).  env   *)
(* is the environment of one request: env.bad holds the container ids      *)
(* whose cgroup write fails, env.ord the iteration order of the Allocated  *)
(* map.                                                                    *)

Res(s, a, err) == [s |-> s, a |-> a, err |-> err]

\* CgroupController.UpdateCPUSet: the outcome of the cgroup write
UpdateCPUSet(c, env) == IF c.CID \in env.bad THEN "CgroupError" ELSE "nil"

\* a search that also accepts a range of exactly the length asked for
RECURSIVE FirstFitWhole(_, _, _)
FirstFitWhole(avail, i, cpus) ==
    IF i > Len(avail) THEN 0
    ELSE IF avail[i].EndCPU - avail[i].StartCPU + 1 - cpus >= 0 THEN i
    ELSE FirstFitWhole(avail, i + 1, cpus)

\* the loop over s.AvailableCPUs in DefaultAllocator.takeCpus
RECURSIVE FirstFit(_, _, _)
FirstFit(avail, i, cpus) ==
    IF i > Len(avail) THEN 0
    ELSE IF avail[i].EndCPU - avail[i].StartCPU + 1 - cpus > 0 THEN i
    ELSE FirstFit(avail, i + 1, cpus)

\* a take that records the allocation without advancing StartCPU of the range
\* it took it from
DefaultTakeCpusKeepsRange(c, s, a, env) ==
    IF c.QS # Guaranteed THEN Res(s, a, "nil")
    ELSE LET i == FirstFit(s.AvailableCPUs, 1, c.Cpus)
         IN IF i = 0 THEN Res(s, a, "CpusNotAvailable")
            ELSE LET sCPU == s.AvailableCPUs[i].StartCPU
                     eCPU == sCPU + c.Cpus - 1
                     s2 == [s EXCEPT !.Allocated = MapPut(@, c.CID,
                                         <<[StartCPU |-> sCPU, EndCPU |-> eCPU]>>)]
                 IN Res(s2, a, UpdateCPUSet(c, env))

\* DefaultAllocator.takeCpus
DefaultTakeCpus(c, s, a, env) ==
    IF c.QS # Guaranteed THEN Res(s, a, "nil")
    ELSE LET i == FirstFit(s.AvailableCPUs, 1, c.Cpus)
         IN IF i = 0 THEN Res(s, a, "CpusNotAvailable")
            ELSE LET sCPU == s.AvailableCPUs[i].StartCPU
                     eCPU == sCPU + c.Cpus - 1
                     s2 == [s EXCEPT !.AvailableCPUs[i].StartCPU = eCPU + 1,
                                     !.Allocated = MapPut(@, c.CID,
                                         <<[StartCPU |-> sCPU, EndCPU |-> eCPU]>>)]
                 IN Res(s2, a, UpdateCPUSet(c, env))

\* a freeCpus that forgets the allocation and gives no CPU back
DefaultFreeCpusKeepsRanges(c, s, a, env) ==
    IF c.QS # Guaranteed THEN Res(s, a, "nil")
    ELSE IF c.CID \notin DOMAIN s.Allocated THEN Res(s, a, "ContainerNotFound")
    ELSE Res([s EXCEPT !.Allocated = MapDel(@, c.CID)], a, "nil")

\* DefaultAllocator.freeCpus
DefaultFreeCpus(c, s, a, env) ==
    IF c.QS # Guaranteed THEN Res(s, a, "nil")
    ELSE IF c.CID \notin DOMAIN s.Allocated THEN Res(s, a, "ContainerNotFound")
    ELSE LET v == s.Allocated[c.CID]
             avail == [i \in DOMAIN s.AvailableCPUs |->
                        IF v[1].EndCPU = s.AvailableCPUs[i].StartCPU - 1
                        THEN [s.AvailableCPUs[i] EXCEPT !.StartCPU = v[1].StartCPU]
                        ELSE s.AvailableCPUs[i]]
         IN Res([s EXCEPT !.Allocated = MapDel(@, c.CID), !.AvailableCPUs = avail], a, "nil")

\* DefaultAllocator.clearCpus, NumaAwareAllocator.clearCpus,
\* NumaPerNamespaceAllocator.clearCpus: one cgroup write, no change of the state
ClearCpus(c, s, a, env) == Res(s, a, UpdateCPUSet(c, env))

\* NumaAwareAllocator.takeCpus
NumaTakeCpus(c, s, a, env) ==
    IF c.QS # Guaranteed THEN Res(s, a, "nil")
    ELSE LET Taken(r) ==
                 IF r.err THEN Res([s EXCEPT !.Topology = r.t], a, "CpusNotAvailable")
                 ELSE LET allocatedList == MapGet(s.Allocated, c.CID, <<>>)
                                             \o SingletonBuckets(r.cpus)
                          s2 == [s EXCEPT !.Topology = r.t,
                                          !.Allocated = MapPut(@, c.CID, allocatedList)]
                      IN Res(s2, a, UpdateCPUSet(c, env))
         IN Taken(TopologyTake(s.Topology, c.Cpus))

RECURSIVE ReturnAll(_, _)
ReturnAll(t, cpus) ==
    IF cpus = <<>> THEN [t |-> t, err |-> FALSE]
    ELSE LET Given(r) == IF r.err THEN r ELSE ReturnAll(r.t, Tail(cpus))
         IN Given(TopologyReturn(t, Head(cpus)))

\* NumaAwareAllocator.freeCpus
NumaFreeCpus(c, s, a, env) ==
    IF c.QS # Guaranteed THEN Res(s, a, "nil")
    ELSE IF c.CID \notin DOMAIN s.Allocated THEN Res(s, a, "ContainerNotFound")
    ELSE LET v == s.Allocated[c.CID]
             Freed(r) ==
                 Res([s EXCEPT !.Allocated = MapDel(@, c.CID), !.Topology = r.t], a,
                     IF r.err THEN "CpusNotAvailable" ELSE "nil")
         IN Freed(ReturnAll(s.Topology, CpusOfBuckets(v)))

----------------------------------------------------------------------------
(* NumaPerNamespaceAllocator *)

\* a getBucket whose last bucket is no larger than the others
getBucketEqualSlices(a, namespace) ==
    LET Slice(leafs, bucketSize, namespaceBucket) ==
            SubSeq(leafs, bucketSize * namespaceBucket + 1,
                   bucketSize * (namespaceBucket + 1))
    IN Slice(GetLeafs, Len(GetLeafs) \div a.NumBuckets, a.NamespaceToBucket[namespace])

\* NumaPerNamespaceAllocator.getBucket for a mapped namespace: the leaves of its bucket
getBucket(a, namespace) ==
    LET Slice(leafs, bucketSize, namespaceBucket) ==
            IF namespaceBucket = a.NumBuckets - 1
            THEN SubSeq(leafs, bucketSize * namespaceBucket + 1, Len(leafs))
            ELSE SubSeq(leafs, bucketSize * namespaceBucket + 1,
                        bucketSize * (namespaceBucket + 1))
    IN Slice(GetLeafs, Len(GetLeafs) \div a.NumBuckets, a.NamespaceToBucket[namespace])

\* a newNamespace that gives every namespace the first bucket
newNamespaceFirstBucket(a, namespace) ==
    [a EXCEPT !.NamespaceToBucket = MapPut(@, namespace, 0),
              !.globalBucket = @ + 1]

\* NumaPerNamespaceAllocator.newNamespace
newNamespace(a, namespace) ==
    [a EXCEPT !.NamespaceToBucket = MapPut(@, namespace, a.globalBucket % a.NumBuckets),
              !.globalBucket = @ + 1]

\* NumaPerNamespaceAllocator.freeNamespace; err is ErrNamespaceNotEmpty
freeNamespace(a, namespace) ==
    LET namespaceBucket == MapGet(a.NamespaceToBucket, namespace, 0)
    IN IF MapGet(a.BucketToNumContainers, namespaceBucket, 0) > 0
       THEN [a |-> a, err |-> TRUE]
       ELSE [a |-> [a EXCEPT !.BucketToNumContainers = MapDel(@, namespaceBucket),
                             !.NamespaceToBucket = MapDel(@, namespace)],
             err |-> FALSE]

RECURSIVE TakeAvailableLeaves(_, _, _, _)
TakeAvailableLeaves(t, bucket, n, cpuIds) ==
    IF bucket = <<>> THEN [t |-> t, cpus |-> cpuIds]
    ELSE IF Available(t, Head(bucket))
         THEN LET ids == Append(cpuIds, Value(Head(bucket)))
                  t2 == LeafTake(t, Head(bucket))
              IN IF Len(ids) = n THEN [t |-> t2, cpus |-> ids]
                 ELSE TakeAvailableLeaves(t2, Tail(bucket), n, ids)
         ELSE TakeAvailableLeaves(t, Tail(bucket), n, cpuIds)

\* NumaPerNamespaceAllocator.takeGuaranteedCpusFromBucket
takeGuaranteedCpusFromBucket(t, bucket, c) ==
    LET numAvailable == Min(c.Cpus, Cardinality({i \in DOMAIN bucket : Available(t, bucket[i])}))
        Taken(r) == [t |-> r.t, cpus |-> r.cpus, err |-> FALSE]
    IN IF numAvailable < c.Cpus THEN [t |-> t, cpus |-> <<>>, err |-> TRUE]
       ELSE Taken(TakeAvailableLeaves(t, bucket, c.Cpus, <<>>))

RECURSIVE SelectLeaves(_, _, _)
SelectLeaves(t, bucket, exclusive) ==
    IF bucket = <<>> THEN <<>>
    ELSE IF ~exclusive \/ Available(t, Head(bucket))
         THEN <<Value(Head(bucket))>> \o SelectLeaves(t, Tail(bucket), exclusive)
         ELSE SelectLeaves(t, Tail(bucket), exclusive)

\* NumaPerNamespaceAllocator.takeAllCpusFromBucket
takeAllCpusFromBucket(t, bucket, exclusive) ==
    [t |-> t, cpus |-> SelectLeaves(t, bucket, exclusive), err |-> FALSE]

NoContainer == [CID |-> "", PID |-> "", Name |-> "", Cpus |-> 0, QS |-> Guaranteed]

NoPod == [PID |-> "", Name |-> "", Namespace |-> "", Containers |-> <<>>]

\* findContainer: a container of some pod with this id (NoContainer with found FALSE if none)
findContainer(s, cid) ==
    LET Pick(hits) ==
            IF hits = {} THEN [found |-> FALSE, c |-> NoContainer]
            ELSE [found |-> TRUE, c |-> CHOOSE c \in hits : TRUE]
    IN Pick({c \in UNION {Range(s.Pods[p].Containers) : p \in DOMAIN s.Pods} : c.CID = cid})

\* the loop of removeCpusFromCommonPool (add FALSE) and addCpusToCommonPool (add TRUE)
\* over the keys of Allocated in iteration order cids
RECURSIVE CommonPoolLoop(_, _, _, _, _, _, _)
CommonPoolLoop(s, a, cids, namespace, cpus, add, env) ==
    IF cids = <<>> THEN Res(s, a, "nil")
    ELSE LET cid == Head(cids)
             Moved(originalCPUs) ==
                 [s EXCEPT !.Allocated[cid] =
                     ToBucketList(IF add THEN originalCPUs \cup cpus ELSE originalCPUs \ cpus)]
             Visit(f) ==
                 IF cid \notin DOMAIN s.Allocated \/ ~f.found
                 THEN CommonPoolLoop(s, a, Tail(cids), namespace, cpus, add, env)
                 ELSE IF \/ MapGet(s.Pods, f.c.PID, NoPod).Namespace # namespace
                         \/ f.c.QS = Guaranteed
                 THEN CommonPoolLoop(s, a, Tail(cids), namespace, cpus, add, env)
                 ELSE IF UpdateCPUSet(f.c, env) # "nil" THEN Res(s, a, "CgroupError")
                 ELSE CommonPoolLoop(Moved(CPUSetFromBucketList(s.Allocated[cid])),
                                     a, Tail(cids), namespace, cpus, add, env)
         IN Visit(findContainer(s, cid))

\* NumaPerNamespaceAllocator.removeCpusFromCommonPool
removeCpusFromCommonPool(s, a, namespace, cpus, env) ==
    CommonPoolLoop(s, a, env.ord, namespace, cpus, FALSE, env)

\* NumaPerNamespaceAllocator.addCpusToCommonPool
addCpusToCommonPool(s, a, namespace, cpus, env) ==
    CommonPoolLoop(s, a, env.ord, namespace, cpus, TRUE, env)

\* NumaPerNamespaceAllocator.takeCpus
NamespaceTakeCpus(c, s, a, env, exclusive) ==
    IF c.QS = Guaranteed /\ c.Cpus = 0 THEN Res(s, a, "NotImplemented")
    ELSE IF c.PID \notin DOMAIN s.Pods THEN Res(s, a, "PodNotFound")
    ELSE LET namespace == s.Pods[c.PID].Namespace
             Mapped(a1) ==
                 LET namespaceBucket == a1.NamespaceToBucket[namespace]
                     a2 == [a1 EXCEPT !.BucketToNumContainers =
                                MapPut(@, namespaceBucket, MapGet(@, namespaceBucket, 0) + 1)]
                     Taken(r) ==
                         IF r.err THEN Res(s, a2, "CpusNotAvailable")
                         ELSE LET allocatedList == SingletonBuckets(r.cpus)
                                  s2 == [s EXCEPT !.Topology = r.t,
                                                  !.Allocated = MapPut(@, c.CID, allocatedList)]
                              IN IF UpdateCPUSet(c, env) # "nil"
                                 THEN Res(s2, a2, "CgroupError")
                                 ELSE IF exclusive /\ c.QS = Guaranteed
                                 THEN removeCpusFromCommonPool(
                                          s2, a2, namespace,
                                          CPUSetFromBucketList(allocatedList), env)
                                 ELSE Res(s2, a2, "nil")
                     From(bucket) ==
                         Taken(IF c.QS = Guaranteed
                               THEN takeGuaranteedCpusFromBucket(s.Topology, bucket, c)
                               ELSE takeAllCpusFromBucket(s.Topology, bucket, exclusive))
                 IN From(getBucket(a1, namespace))
         IN Mapped(IF namespace \in DOMAIN a.NamespaceToBucket THEN a
                   ELSE newNamespace(a, namespace))

\* NumaPerNamespaceAllocator.freeCpus
NamespaceFreeCpus(c, s, a, env, exclusive) ==
    IF c.CID \notin DOMAIN s.Allocated THEN Res(s, a, "ContainerNotFound")
    ELSE LET v == s.Allocated[c.CID]
             s1 == [s EXCEPT !.Allocated = MapDel(@, c.CID)]
         IN IF c.PID \notin DOMAIN s1.Pods THEN Res(s1, a, "PodNotFound")
            ELSE LET namespace == s1.Pods[c.PID].Namespace
                     namespaceBucket == MapGet(a.NamespaceToBucket, namespace, 0)
                     a1 == [a EXCEPT !.BucketToNumContainers =
                                MapPut(@, namespaceBucket, MapGet(@, namespaceBucket, 0) - 1)]
                     Freed(fr, r) ==
                         IF fr.err THEN Res(s1, fr.a, "RuntimeError")
                         ELSE IF r.err
                         THEN Res([s1 EXCEPT !.Topology = r.t], fr.a, "CpusNotAvailable")
                         ELSE IF exclusive /\ c.QS = Guaranteed
                         THEN addCpusToCommonPool([s1 EXCEPT !.Topology = r.t], fr.a,
                                                  namespace, CPUSetFromBucketList(v), env)
                         ELSE Res([s1 EXCEPT !.Topology = r.t], fr.a, "nil")
                 IN Freed(IF a1.BucketToNumContainers[namespaceBucket] = 0
                          THEN freeNamespace(a1, namespace)
                          ELSE [a |-> a1, err |-> FALSE],
                          ReturnAll(s1.Topology, CpusOfBuckets(v)))

----------------------------------------------------------------------------
(* StaticPolicy: binds the allocator chosen at start-up *)

\* StaticPolicy.AssignContainer
AssignContainer(alloc, c, s, a, env) ==
    CASE alloc = "default" -> DefaultTakeCpus(c, s, a, env)
      [] alloc = "numa" -> NumaTakeCpus(c, s, a, env)
      [] alloc = "numa-namespace" -> NamespaceTakeCpus(c, s, a, env, FALSE)
      [] alloc = "numa-namespace-exclusive" -> NamespaceTakeCpus(c, s, a, env, TRUE)

\* StaticPolicy.DeleteContainer
DeleteContainer(alloc, c, s, a, env) ==
    CASE alloc = "default" -> DefaultFreeCpus(c, s, a, env)
      [] alloc = "numa" -> NumaFreeCpus(c, s, a, env)
      [] alloc = "numa-namespace" -> NamespaceFreeCpus(c, s, a, env, FALSE)
      [] alloc = "numa-namespace-exclusive" -> NamespaceFreeCpus(c, s, a, env, TRUE)

\* StaticPolicy.ClearContainer
ClearContainer(alloc, c, s, a, env) == ClearCpus(c, s, a, env)

----------------------------------------------------------------------------
(* Daemon.  f is the content of the state file.  Every request handler     *)
(* returns s, a, f, the reply error err, the reply resources res ("nil"    *)
(* for a nil reply) and calls, the policy calls it made in order.          *)

Call(op, c, err) == [op |-> op, cid |-> c.CID, err |-> err]

Out(s, a, err, calls) == [s |-> s, a |-> a, err |-> err, calls |-> calls]

Done(s, a, f, err, res, calls) ==
    [s |-> s, a |-> a, f |-> f, err |-> err, res |-> res, calls |-> calls]

\* ctlplaneapi.AllocatedContainerResource of a container just assigned
AllocatedContainerResource(s, cid) ==
    [ContainerID |-> cid, CPUSet |-> MapGet(s.Allocated, cid, <<>>)]

\* DaemonState.SaveState: json.Marshal and os.WriteFile of the DaemonState
SaveState(s, f, env) ==
    IF env.save THEN [f |-> s, err |-> "nil"] ELSE [f |-> f, err |-> "WriteError"]

\* Daemon.saveState
saveState(s, f, env) ==
    LET r == SaveState(s, f, env)
    IN IF r.err # "nil" THEN [f |-> r.f, err |-> "RuntimeError"] ELSE r

\* a rollbackContainers that clears the last assigned container first
RECURSIVE rollbackContainersReverse(_, _, _, _, _, _, _)
rollbackContainersReverse(alloc, podID, containers, s, a, calls, env) ==
    IF containers = <<>> THEN Out(s, a, "nil", calls)
    ELSE LET c == containerFromRequest(containers[Len(containers)], podID)
             Cleared(r) ==
                 rollbackContainersReverse(alloc, podID,
                                           SubSeq(containers, 1, Len(containers) - 1),
                                           r.s, r.a,
                                           Append(calls, Call("clear", c, r.err)), env)
         IN Cleared(ClearContainer(alloc, c, s, a, env))

\* Daemon.rollbackContainers
RECURSIVE rollbackContainers(_, _, _, _, _, _, _)
rollbackContainers(alloc, podID, containers, s, a, calls, env) ==
    IF containers = <<>> THEN Out(s, a, "nil", calls)
    ELSE LET c == containerFromRequest(Head(containers), podID)
             Cleared(r) ==
                 rollbackContainers(alloc, podID, Tail(containers), r.s, r.a,
                                    Append(calls, Call("clear", c, r.err)), env)
         IN Cleared(ClearContainer(alloc, c, s, a, env))

\* the loop over req.Containers in Daemon.CreatePod; res is containersCpus
RECURSIVE CreateLoop(_, _, _, _, _, _, _, _)
CreateLoop(alloc, req, i, s, a, res, calls, env) ==
    IF i > Len(req.Containers) THEN Out(s, a, "nil", calls) @@ [res |-> res]
    ELSE LET c == containerFromRequest(req.Containers[i], req.PodId)
             RolledBack(r, rb) ==
                 Out([rb.s EXCEPT !.Pods = MapDel(@, req.PodId)], rb.a, r.err, rb.calls)
                     @@ [res |-> "nil"]
             Called(r, calls2) ==
                 IF r.err # "nil"
                 THEN RolledBack(r, rollbackContainers(alloc, req.PodId,
                                                       SubSeq(req.Containers, 1, i - 1),
                                                       r.s, r.a, calls2, env))
                 ELSE CreateLoop(alloc, req, i + 1,
                                 [r.s EXCEPT !.Pods[req.PodId].Containers = Append(@, c)],
                                 r.a, Append(res, AllocatedContainerResource(r.s, c.CID)),
                                 calls2, env)
             Taken(r) == Called(r, Append(calls, Call("assign", c, r.err)))
         IN Taken(AssignContainer(alloc, c, s, a, env))

\* Daemon.CreatePod after validation, under stateMu
CreatePod(alloc, req, s, a, f, env) ==
    LET podMeta == [PID |-> req.PodId, Name |-> req.PodName,
                    Namespace |-> req.PodNamespace, Containers |-> <<>>]
        Saved(r, sv) ==
            IF r.err # "nil" THEN Done(r.s, r.a, f, r.err, "nil", r.calls)
            ELSE IF sv.err # "nil" THEN Done(r.s, r.a, sv.f, sv.err, "nil", r.calls)
            ELSE Done(r.s, r.a, sv.f, "nil", r.res, r.calls)
        Created(r) == Saved(r, saveState(r.s, f, env))
    IN Created(CreateLoop(alloc, req, 1, [s EXCEPT !.Pods = MapPut(@, req.PodId, podMeta)],
                          a, <<>>, <<>>, env))

\* a deleteContainers that gives up at the first failed delete
RECURSIVE deleteContainersStopOnError(_, _, _, _, _, _, _)
deleteContainersStopOnError(alloc, deleted, s, a, failed, calls, env) ==
    IF deleted = <<>> \/ failed
    THEN Out(s, a, IF failed THEN "failedContainersErrors" ELSE "nil", calls)
    ELSE LET Deleted(r) ==
                 deleteContainersStopOnError(alloc, Tail(deleted), r.s, r.a, r.err # "nil",
                                             Append(calls, Call("delete", Head(deleted), r.err)),
                                             env)
         IN Deleted(DeleteContainer(alloc, Head(deleted), s, a, env))

\* Daemon.deleteContainers; err is "nil" or the collected failures
RECURSIVE deleteContainers(_, _, _, _, _, _, _)
deleteContainers(alloc, deleted, s, a, failed, calls, env) ==
    IF deleted = <<>>
    THEN Out(s, a, IF failed THEN "failedContainersErrors" ELSE "nil", calls)
    ELSE LET Deleted(r) ==
                 deleteContainers(alloc, Tail(deleted), r.s, r.a, failed \/ r.err # "nil",
                                  Append(calls, Call("delete", Head(deleted), r.err)), env)
         IN Deleted(DeleteContainer(alloc, Head(deleted), s, a, env))

\* Daemon.DeletePod for a pod in Pods, after validation, under stateMu; a failure
\* of saveState is logged only
DeletePod(alloc, req, s, a, f, env) ==
    LET pod == s.Pods[req.PodId]
        Saved(r, s2) == Done(s2, r.a, saveState(s2, f, env).f, r.err, "nil", r.calls)
        Removed(r) == Saved(r, [r.s EXCEPT !.Pods = MapDel(@, req.PodId)])
    IN Removed(deleteContainers(alloc, pod.Containers, s, a, FALSE, <<>>, env))

\* a getDeletedContainers that finds no container to delete
getDeletedContainersNone(current, wanted) == <<>>

\* getDeletedContainers
getDeletedContainers(current, wanted) ==
    SelectSeq(current, LAMBDA cc : \A i \in DOMAIN wanted : wanted[i].ContainerId # cc.CID)

\* a getChangedContainers that takes every container of the request that the pod
\* has as changed
RECURSIVE getChangedContainersAll(_, _)
getChangedContainersAll(current, wanted) ==
    IF wanted = <<>> THEN <<>>
    ELSE LET cc == Head(wanted)
             hits == SelectSeq(current, LAMBDA oc : oc.CID = cc.ContainerId)
         IN [i \in DOMAIN hits |->
                [current |-> hits[i], wanted |-> containerFromRequest(cc, hits[i].PID)]]
            \o getChangedContainersAll(current, Tail(wanted))

\* getChangedContainers
RECURSIVE getChangedContainers(_, _)
getChangedContainers(current, wanted) ==
    IF wanted = <<>> THEN <<>>
    ELSE LET cc == Head(wanted)
             hits == SelectSeq(current, LAMBDA oc :
                        oc.CID = cc.ContainerId /\ oc # containerFromRequest(cc, oc.PID))
         IN [i \in DOMAIN hits |->
                [current |-> hits[i], wanted |-> containerFromRequest(cc, hits[i].PID)]]
            \o getChangedContainers(current, Tail(wanted))

\* a getNotModifiedContainers that keeps no container
getNotModifiedContainersNone(current, wanted) == <<>>

\* getNotModifiedContainers
RECURSIVE getNotModifiedContainers(_, _)
getNotModifiedContainers(current, wanted) ==
    IF wanted = <<>> THEN <<>>
    ELSE LET cc == Head(wanted)
         IN SelectSeq(current, LAMBDA oc :
                oc.CID = cc.ContainerId /\ oc = containerFromRequest(cc, oc.PID))
            \o getNotModifiedContainers(current, Tail(wanted))

\* getAddedContainers
getAddedContainers(current, wanted, podID) ==
    LET fresh == SelectSeq(wanted, LAMBDA cc :
                    \A i \in DOMAIN current : current[i].CID # cc.ContainerId)
    IN [i \in DOMAIN fresh |-> containerFromRequest(fresh[i], podID)]

\* an updateContainers that gives up at the first failed call
RECURSIVE updateContainersStopOnError(_, _, _, _, _, _, _, _, _)
updateContainersStopOnError(alloc, updated, s, a, failed, done, res, calls, env) ==
    IF updated = <<>> \/ failed
    THEN [s |-> s, a |-> a, failed |-> failed, done |-> done, res |-> res, calls |-> calls]
    ELSE LET it == Head(updated)
             Taken(t, calls3) ==
                 updateContainersStopOnError(alloc, Tail(updated), t.s, t.a,
                     t.err # "nil",
                     IF t.err # "nil" THEN done ELSE Append(done, it.wanted),
                     IF t.err # "nil" THEN res
                     ELSE Append(res, AllocatedContainerResource(t.s, it.wanted.CID)),
                     calls3, env)
             Assign(t, calls2) == Taken(t, Append(calls2, Call("assign", it.wanted, t.err)))
             Freed(d, calls2) ==
                 IF d.err # "nil"
                 THEN updateContainersStopOnError(alloc, Tail(updated), d.s, d.a, TRUE, done,
                                                  res, calls2, env)
                 ELSE Assign(AssignContainer(alloc, it.wanted, d.s, d.a, env), calls2)
             Delete(d) == Freed(d, Append(calls, Call("delete", it.current, d.err)))
         IN Delete(DeleteContainer(alloc, it.current, s, a, env))

\* an updateContainers that assigns the wanted container although the delete of
\* the current one failed
RECURSIVE updateContainersAssignAnyway(_, _, _, _, _, _, _, _, _)
updateContainersAssignAnyway(alloc, updated, s, a, failed, done, res, calls, env) ==
    IF updated = <<>>
    THEN [s |-> s, a |-> a, failed |-> failed, done |-> done, res |-> res, calls |-> calls]
    ELSE LET it == Head(updated)
             Taken(t, bad, calls3) ==
                 IF t.err # "nil"
                 THEN updateContainersAssignAnyway(alloc, Tail(updated), t.s, t.a, TRUE,
                                                   done, res, calls3, env)
                 ELSE updateContainersAssignAnyway(alloc, Tail(updated), t.s, t.a,
                                       failed \/ bad, Append(done, it.wanted),
                                       Append(res, AllocatedContainerResource(t.s, it.wanted.CID)),
                                       calls3, env)
             Assign(t, bad, calls2) ==
                 Taken(t, bad, Append(calls2, Call("assign", it.wanted, t.err)))
             Freed(d, calls2) ==
                 Assign(AssignContainer(alloc, it.wanted, d.s, d.a, env), d.err # "nil", calls2)
             Delete(d) == Freed(d, Append(calls, Call("delete", it.current, d.err)))
         IN Delete(DeleteContainer(alloc, it.current, s, a, env))

\* Daemon.updateContainers; done collects the updated containers, res their resources
RECURSIVE updateContainers(_, _, _, _, _, _, _, _, _)
updateContainers(alloc, updated, s, a, failed, done, res, calls, env) ==
    IF updated = <<>>
    THEN [s |-> s, a |-> a, failed |-> failed, done |-> done, res |-> res, calls |-> calls]
    ELSE LET it == Head(updated)
             Taken(t, calls3) ==
                 IF t.err # "nil"
                 THEN updateContainers(alloc, Tail(updated), t.s, t.a, TRUE, done, res,
                                       calls3, env)
                 ELSE updateContainers(alloc, Tail(updated), t.s, t.a, failed,
                                       Append(done, it.wanted),
                                       Append(res, AllocatedContainerResource(t.s, it.wanted.CID)),
                                       calls3, env)
             Assign(t, calls2) == Taken(t, Append(calls2, Call("assign", it.wanted, t.err)))
             Freed(d, calls2) ==
                 IF d.err # "nil"
                 THEN updateContainers(alloc, Tail(updated), d.s, d.a, TRUE, done, res,
                                       calls2, env)
                 ELSE Assign(AssignContainer(alloc, it.wanted, d.s, d.a, env), calls2)
             Delete(d) == Freed(d, Append(calls, Call("delete", it.current, d.err)))
         IN Delete(DeleteContainer(alloc, it.current, s, a, env))

\* Daemon.addContainers; done collects the added containers, res their resources
RECURSIVE addContainers(_, _, _, _, _, _, _, _, _)
addContainers(alloc, added, s, a, failed, done, res, calls, env) ==
    IF added = <<>>
    THEN [s |-> s, a |-> a, failed |-> failed, done |-> done, res |-> res, calls |-> calls]
    ELSE LET Taken(t, calls2) ==
                 IF t.err # "nil"
                 THEN addContainers(alloc, Tail(added), t.s, t.a, TRUE, done, res, calls2, env)
                 ELSE addContainers(alloc, Tail(added), t.s, t.a, failed,
                                    Append(done, Head(added)),
                                    Append(res, AllocatedContainerResource(t.s, Head(added).CID)),
                                    calls2, env)
             Assign(t) == Taken(t, Append(calls, Call("assign", Head(added), t.err)))
         IN Assign(AssignContainer(alloc, Head(added), s, a, env))

\* Daemon.UpdatePod from d.stateMu.Lock() on: the existence check was made before
UpdatePod(alloc, req, s, a, f, env) ==
    LET pod == MapGet(s.Pods, req.PodId, NoPod)
        pC == pod.Containers
        Saved(del, upd, add, s2, sv) ==
            IF sv.err # "nil" THEN Done(s2, add.a, sv.f, sv.err, "nil", add.calls)
            ELSE IF del.err # "nil" \/ upd.failed \/ add.failed
            THEN Done(s2, add.a, sv.f, "RuntimeError", upd.res \o add.res, add.calls)
            ELSE Done(s2, add.a, sv.f, "nil", upd.res \o add.res, add.calls)
        Stored(del, upd, add, s2) == Saved(del, upd, add, s2, saveState(s2, f, env))
        Listed(del, upd, add, containers) ==
            Stored(del, upd, add,
                   [add.s EXCEPT !.Pods =
                        MapPut(@, req.PodId, [pod EXCEPT !.Containers = containers])])
        Added(del, upd, add) ==
            Listed(del, upd, add,
                   getNotModifiedContainers(pC, req.Containers) \o upd.done \o add.done)
        Updated(del, upd) ==
            Added(del, upd,
                  addContainers(alloc, getAddedContainers(pC, req.Containers, req.PodId),
                                upd.s, upd.a, FALSE, <<>>, <<>>, upd.calls, env))
        Deleted(del) ==
            Updated(del,
                    updateContainers(alloc, getChangedContainers(pC, req.Containers),
                                     del.s, del.a, FALSE, <<>>, <<>>, del.calls, env))
    IN Deleted(deleteContainers(alloc, getDeletedContainers(pC, req.Containers),
                                s, a, FALSE, <<>>, env))

----------------------------------------------------------------------------
(* Requests the daemon is offered *)

Allocators == {"default", "numa", "numa-namespace", "numa-namespace-exclusive"}

\* the numa-namespace=<N> values the daemon is started with
BucketChoices == {2}

PodIds == {"p1", "p2"}

\* the namespaces each pod is created in
NamespacesOf(pid) == IF pid = "p1" THEN {"ns1"} ELSE {"ns1", "ns2"}

\* the container ids the runtime gave to the containers of each pod
CidsOf(pid) == IF pid = "p1" THEN {"c1", "c2"} ELSE IF pid = "p2" THEN {"c3"} ELSE {}

AllCids == UNION {CidsOf(p) : p \in PodIds}

GuaranteedResources(k) ==
    [RequestedCpus |-> k, LimitCpus |-> k, RequestedMemory |-> 1, LimitMemory |-> 1]

BurstableResources ==
    [RequestedCpus |-> 1, LimitCpus |-> 2, RequestedMemory |-> 1, LimitMemory |-> 1]

BestEffortResources ==
    [RequestedCpus |-> 0, LimitCpus |-> 0, RequestedMemory |-> 0, LimitMemory |-> 0]

ValidResources ==
    {GuaranteedResources(k) : k \in 1..MaxGuaranteedCpus} \cup {BurstableResources}

InvalidResources ==
    { [BurstableResources EXCEPT !.RequestedCpus = -1],
      [BurstableResources EXCEPT !.LimitMemory = 0] }

ContainerInfo(cid, res) == [ContainerId |-> cid, ContainerName |-> "name", Resources |-> res]

\* one container, or two with different ids in the order the runtime reports them
ContainerLists(cids) ==
    {<<ContainerInfo(c, r)>> : c \in cids, r \in ValidResources}
        \cup UNION {{<<ContainerInfo(c1, r1), ContainerInfo(c2, r2)>> :
                        c2 \in {c \in cids : c1 = "c1" /\ c = "c2"},
                        r1 \in ValidResources, r2 \in ValidResources}
                     : c1 \in cids}

RECURSIVE SumResources(_)
SumResources(l) ==
    IF l = <<>> THEN BestEffortResources
    ELSE LET h == Head(l).Resources
             t == SumResources(Tail(l))
         IN [RequestedCpus |-> h.RequestedCpus + t.RequestedCpus,
             LimitCpus |-> h.LimitCpus + t.LimitCpus,
             RequestedMemory |-> h.RequestedMemory + t.RequestedMemory,
             LimitMemory |-> h.LimitMemory + t.LimitMemory]

CreateRequest(pid, ns, l) ==
    [PodId |-> pid, PodName |-> "pod", PodNamespace |-> ns,
     Resources |-> SumResources(l), Containers |-> l]

UpdateRequest(pid, l) == [PodId |-> pid, Resources |-> SumResources(l), Containers |-> l]

DeleteRequest(pid) == [PodId |-> pid]

ValidCreateRequests ==
    UNION {{CreateRequest(p, ns, l) : ns \in NamespacesOf(p), l \in ContainerLists(CidsOf(p))}
            : p \in PodIds}

InvalidLists ==
    {<<ContainerInfo("c1", r)>> : r \in InvalidResources}
        \cup { <<>>,
               <<[ContainerInfo("c1", BurstableResources) EXCEPT !.ContainerId = ""]>>,
               <<[ContainerInfo("c1", BurstableResources) EXCEPT !.ContainerName = ""]>> }

InvalidCreateRequests ==
    {CreateRequest("p1", "ns1", l) : l \in InvalidLists}
        \cup { [CreateRequest("p1", "ns1", <<ContainerInfo("c1", BurstableResources)>>)
                    EXCEPT ![f] = ""] : f \in {"PodId", "PodName", "PodNamespace"} }
        \cup { [CreateRequest("p1", "ns1", <<ContainerInfo("c1", BurstableResources)>>)
                    EXCEPT !.Resources.LimitCpus = -1] }

CreateRequests == ValidCreateRequests \cup InvalidCreateRequests

ValidUpdateRequests ==
    UNION {{UpdateRequest(p, l) : l \in ContainerLists(CidsOf(p))} : p \in PodIds}

InvalidUpdateRequests ==
    {UpdateRequest("p1", l) : l \in InvalidLists}
        \cup { UpdateRequest("", <<ContainerInfo("c1", BurstableResources)>>) }
        \cup { [UpdateRequest("p1", <<ContainerInfo("c1", BurstableResources)>>)
                    EXCEPT !.Resources.LimitCpus = -1] }

UpdateRequests == ValidUpdateRequests \cup InvalidUpdateRequests

DeleteRequests == {DeleteRequest(p) : p \in PodIds \cup {""}}

\* the iteration orders of the Allocated map that are told apart
MapOrders == {<<"c1", "c2", "c3">>, <<"c3", "c2", "c1">>}

\* the containers whose cgroup directory the writer cannot write
FailingCids == {"c2"}

\* Environments of a request: every write succeeds, or the cgroup writes for one
\* container fail, or the write of the state file fails; env.ord is the order in which
\* range visits the keys of Allocated, which matters only when a write of the
\* common-pool loop fails
Envs(alloc) ==
    LET anyOrder == <<"c1", "c2", "c3">>
    IN {[bad |-> {}, ord |-> anyOrder, save |-> TRUE],
        [bad |-> {}, ord |-> anyOrder, save |-> FALSE]}
          \cup {[bad |-> {c}, ord |-> o, save |-> TRUE] :
                  c \in FailingCids,
                  o \in IF alloc = "numa-namespace-exclusive"
                        THEN MapOrders ELSE {anyOrder}}

----------------------------------------------------------------------------
(* The state machine *)

Reply(op, req, err, res, calls) ==
    [op |-> op, pid |-> req.PodId, req |-> req, err |-> err, res |-> res, calls |-> calls]

\* NewAgent
NewAgent == [addedPods |-> {}, numConsecutiveUnsuccessfulAttempts |-> 0, exited |-> FALSE]

\* the DaemonState newState builds before it looks at the state file: host cpuset
\* "0-3", the topology read from sysfs, no pods
NewState ==
    [AvailableCPUs |-> <<[StartCPU |-> 0, EndCPU |-> Cardinality(CpuIds) - 1]>>,
     Allocated |-> EmptyMap,
     Pods |-> EmptyMap,
     Topology |-> NewTopology]

\* NewNumaPerNamespaceAllocator
NewNumaPerNamespaceAllocator(numNamespaces) ==
    [NumBuckets |-> numNamespaces, NamespaceToBucket |-> EmptyMap,
     BucketToNumContainers |-> EmptyMap, globalBucket |-> 0]

\* a check of the state path that lets a symbolic link through
ErrorIfSymlinkFollows(path) == "nil"

\* utils.ErrorIfSymlink on the state path
ErrorIfSymlink(path) == IF path.symlink THEN "ErrFileIsSymlink" ELSE "nil"

\* DaemonState.LoadState: json.Unmarshal replaces the slices and the topology and
\* adds the entries of the file to the maps
LoadState(s, path) ==
    IF ErrorIfSymlink(path) # "nil" THEN [s |-> s, err |-> ErrorIfSymlink(path)]
    ELSE LET c == path.content
         IN [s |-> [AvailableCPUs |-> c.AvailableCPUs,
                    Allocated |-> [k \in DOMAIN s.Allocated \cup DOMAIN c.Allocated |->
                                      IF k \in DOMAIN c.Allocated THEN c.Allocated[k]
                                      ELSE s.Allocated[k]],
                    Pods |-> [k \in DOMAIN s.Pods \cup DOMAIN c.Pods |->
                                 IF k \in DOMAIN c.Pods THEN c.Pods[k] ELSE s.Pods[k]],
                    Topology |-> c.Topology],
             err |-> "nil"]

\* runDaemonMode on a host without a state file: newState saves the fresh DaemonState
Init ==
    /\ allocator \in Allocators
    /\ state = NewState
    /\ disk = NewState
    /\ \E n \in BucketChoices : nsalloc = NewNumaPerNamespaceAllocator(n)
    /\ inflight = {}
    /\ last = Reply("none", DeleteRequest(""), "nil", "nil", <<>>)
    /\ nreq = 0
    /\ stateMu = {}
    /\ agent = NewAgent
    /\ events = <<>>

\* the daemon process serves requests: its last start did not fail
Running == ~(last.op = "restart" /\ last.err # "nil")

\* the daemon returns err without the policy or the state file being touched
Refused(op, req, err) ==
    /\ last' = Reply(op, req, err, "nil", <<>>)
    /\ nreq' = nreq + 1
    /\ UNCHANGED <<allocator, state, nsalloc, disk>>

\* the daemon returns from a handler body that ran with outcome r
Ran(op, req, r) ==
    /\ state' = r.s
    /\ nsalloc' = r.a
    /\ disk' = r.f
    /\ last' = Reply(op, req, r.err, r.res, r.calls)
    /\ nreq' = nreq + 1
    /\ UNCHANGED allocator

\* a request that returns without the policy or the state file being touched
Rejected(op, req, err) ==
    /\ Refused(op, req, err)
    /\ UNCHANGED <<inflight, stateMu, agent, events>>

\* a request that ran under stateMu with outcome r
Served(op, req, r) ==
    /\ Ran(op, req, r)
    /\ UNCHANGED <<stateMu, agent, events>>

\* Daemon.CreatePod; the agent creates a pod once, so the pod id of a valid request
\* is not in Pods
CreatePodCall ==
    /\ Running /\ nreq < MaxRequests
    /\ \E req \in CreateRequests :
          IF ~ValidateCreatePodRequest(req)
          THEN Rejected("create", req, "PodSpecError")
          ELSE \E env \in Envs(allocator) :
                  /\ req.PodId \notin DOMAIN state.Pods
                  /\ Served("create", req,
                            CreatePod(allocator, req, state, nsalloc, disk, env))
                  /\ UNCHANGED inflight

\* a DeletePod that reports success for a pod id that is not in Pods
DeletePodCallLenient ==
    /\ Running /\ nreq < MaxRequests
    /\ \E req \in DeleteRequests :
          IF ~ValidateDeletePodRequest(req)
          THEN Rejected("delete", req, "PodSpecError")
          ELSE IF req.PodId \notin DOMAIN state.Pods
          THEN Rejected("delete", req, "nil")
          ELSE \E env \in Envs(allocator) :
                  /\ Served("delete", req,
                            DeletePod(allocator, req, state, nsalloc, disk, env))
                  /\ UNCHANGED inflight

\* Daemon.DeletePod
DeletePodCall ==
    /\ Running /\ nreq < MaxRequests
    /\ \E req \in DeleteRequests :
          IF ~ValidateDeletePodRequest(req)
          THEN Rejected("delete", req, "PodSpecError")
          ELSE IF req.PodId \notin DOMAIN state.Pods
          THEN Rejected("delete", req, "PodNotFound")
          ELSE \E env \in Envs(allocator) :
                  /\ Served("delete", req,
                            DeletePod(allocator, req, state, nsalloc, disk, env))
                  /\ UNCHANGED inflight

\* Daemon.UpdatePod when no other request runs between its check of Pods and its
\* acquiring stateMu
UpdatePodCall ==
    /\ Running /\ nreq < MaxRequests
    /\ \E req \in UpdateRequests :
          IF ~ValidateUpdatePodRequest(req)
          THEN Rejected("update", req, "PodSpecError")
          ELSE IF req.PodId \notin DOMAIN state.Pods
          THEN Rejected("update", req, "PodNotFound")
          ELSE \E env \in Envs(allocator) :
                  /\ Served("update", req,
                            UpdatePod(allocator, req, state, nsalloc, disk, env))
                  /\ UNCHANGED inflight

\* Daemon.UpdatePod up to d.stateMu.Lock(): validation and the check of Pods, made
\* without the lock; a request that passes waits for the lock
UpdatePodCheck ==
    /\ Running /\ nreq < MaxRequests
    /\ \E req \in UpdateRequests :
          IF ~ValidateUpdatePodRequest(req)
          THEN Rejected("update", req, "PodSpecError")
          ELSE IF req.PodId \notin DOMAIN state.Pods
          THEN Rejected("update", req, "PodNotFound")
          ELSE /\ req \notin inflight
               /\ Cardinality(inflight) < MaxInflight
               /\ inflight' = inflight \cup {req}
               /\ UNCHANGED <<allocator, state, nsalloc, last, nreq, disk, stateMu, agent, events>>

\* Daemon.UpdatePod from d.stateMu.Lock() to its return
UpdatePodLocked ==
    /\ Running
    /\ \E req \in inflight :
          \E env \in Envs(allocator) :
              /\ Served("update", req,
                        UpdatePod(allocator, req, state, nsalloc, disk, env))
              /\ inflight' = inflight \ {req}

\* the daemon process is stopped between two requests and started again
\* (runDaemonMode: getAllocator, cpudaemon.New, newState); the state file exists,
\* and may have been replaced by a symbolic link
Restart ==
    /\ Running /\ nreq < MaxRequests
    /\ inflight = {}
    /\ \E symlink \in BOOLEAN :
          LET r == LoadState(NewState, [symlink |-> symlink, content |-> disk])
          IN /\ state' = r.s
             /\ nsalloc' = NewNumaPerNamespaceAllocator(nsalloc.NumBuckets)
             /\ last' = Reply("restart", DeleteRequest(""), r.err, "nil", <<>>)
             /\ nreq' = nreq + 1
             /\ UNCHANGED <<allocator, inflight, disk, stateMu, agent, events>>

\* requests served one at a time
Next == CreatePodCall \/ DeletePodCall \/ UpdatePodCall \/ Restart

InitDefault == Init /\ allocator = "default"

SpecDefault == InitDefault /\ [][Next]_vars

InitNuma == Init /\ allocator = "numa"

SpecNuma == InitNuma /\ [][Next]_vars

InitNamespace == Init /\ allocator = "numa-namespace"

SpecNamespace == InitNamespace /\ [][Next]_vars

InitExclusive == Init /\ allocator = "numa-namespace-exclusive"

SpecExclusive == InitExclusive /\ [][Next]_vars

\* requests served by concurrent goroutines: an UpdatePod is two steps
NextConcurrent == CreatePodCall \/ DeletePodCall \/ UpdatePodCheck \/ UpdatePodLocked

SpecConcurrent == InitDefault /\ [][NextConcurrent]_vars

\* the daemon under each of the two allocators that keep one pool of CPUs
InitPool == Init /\ allocator \in {"default", "numa"}

SpecPool == InitPool /\ [][Next]_vars

\* the daemon under each of the two per-namespace allocators
InitPerNamespace == Init /\ allocator \in {"numa-namespace", "numa-namespace-exclusive"}

SpecPerNamespace == InitPerNamespace /\ [][Next]_vars

\* the daemon under each of the four allocators
Spec == Init /\ [][Next]_vars

----------------------------------------------------------------------------
(* Properties *)

\* the containers of the pods in Pods
ContainersIn(s) == UNION {Range(s.Pods[p].Containers) : p \in DOMAIN s.Pods}

\* the Guaranteed containers of the pods in Pods that have an entry in Allocated
GuaranteedIn(s) == {c \in ContainersIn(s) : c.QS = Guaranteed /\ c.CID \in DOMAIN s.Allocated}

\* the other containers of the pods in Pods that have an entry in Allocated
NonGuaranteedIn(s) == {c \in ContainersIn(s) : c.QS # Guaranteed /\ c.CID \in DOMAIN s.Allocated}

\* the CPUs recorded in Allocated for a container id
CpusOf(s, cid) == CPUSetFromBucketList(s.Allocated[cid])

\* the CPUs of the ranges of AvailableCPUs
AvailableSet(s) ==
    UNION {s.AvailableCPUs[i].StartCPU .. s.AvailableCPUs[i].EndCPU : i \in DOMAIN s.AvailableCPUs}

\* a request has just returned
Returned == nreq' = nreq + 1

AssignFailed(reply) ==
    \E i \in DOMAIN reply.calls : reply.calls[i].op = "assign" /\ reply.calls[i].err # "nil"

HealthyEnv == [bad |-> {}, ord |-> <<"c1", "c2", "c3">>, save |-> TRUE]

\* C1: a CreatePod in which an assign failed leaves the State (pods, allocated,
\* available_cpus, every num_available) as it was before the call
C1_FailedCreateRestoresState ==
    [][(Returned /\ last'.op = "create" /\ AssignFailed(last')) => state' = state]_vars

\* C2: from every reachable State, a successful CreatePod of a pod that is not in
\* pods followed at once by DeletePod of that pod gives back the State
C2_CreateThenDeleteRestoresState ==
    \A req \in ValidCreateRequests :
        req.PodId \notin DOMAIN state.Pods =>
            LET c == CreatePod(allocator, req, state, nsalloc, disk, HealthyEnv)
                d == DeletePod(allocator, DeleteRequest(req.PodId), c.s, c.a, c.f, HealthyEnv)
            IN c.err = "nil" => d.s = state

\* C3: under the per-namespace allocators no CPU is in the allocated set of two
\* different Guaranteed containers
C3_GuaranteedDisjointPerNamespace ==
    \A c1 \in GuaranteedIn(state), c2 \in GuaranteedIn(state) :
        c1.CID # c2.CID => CpusOf(state, c1.CID) \cap CpusOf(state, c2.CID) = {}

\* C4: under the Default and NUMA allocators the CPU sets recorded in Allocated
\* for two different containers are disjoint, and under the Default allocator
\* they are disjoint from the ranges of AvailableCPUs
C4_AllocatedDisjointPool ==
    /\ \A c1 \in DOMAIN state.Allocated, c2 \in DOMAIN state.Allocated :
           c1 # c2 => CpusOf(state, c1) \cap CpusOf(state, c2) = {}
    /\ allocator = "default" =>
           \A c \in DOMAIN state.Allocated : CpusOf(state, c) \cap AvailableSet(state) = {}

\* two Guaranteed containers of different pods hold CPUs at the same time
C4_Witness ==
    \E c1 \in GuaranteedIn(state), c2 \in GuaranteedIn(state) :
        /\ c1.PID # c2.PID
        /\ CpusOf(state, c1.CID) # {}
        /\ CpusOf(state, c2.CID) # {}

\* C5: under the exclusive per-namespace allocator no CPU recorded for a Guaranteed
\* container is also recorded for a non-Guaranteed container
C5_ExclusiveGuaranteedNotShared ==
    allocator = "numa-namespace-exclusive" =>
        \A g \in GuaranteedIn(state), n \in NonGuaranteedIn(state) :
            CpusOf(state, g.CID) \cap CpusOf(state, n.CID) = {}

\* the sum of NumAvailable over a list of tree nodes
RECURSIVE SumAvailable(_, _)
SumAvailable(t, kids) ==
    IF kids = <<>> THEN 0 ELSE t[Head(kids)] + SumAvailable(t, Tail(kids))

\* C6: NumAvailable of every inner node of the topology is the sum of NumAvailable
\* of its children, and NumAvailable of every leaf is 0 or 1
C6_NumAvailableIsSumOfChildren ==
    \A n \in TreeNodes :
        IF IsLeaf(n) THEN state.Topology[n] \in {0, 1}
        ELSE state.Topology[n] = SumAvailable(state.Topology, Children(n))

\* C7: an UpdatePod that returns after a DeletePod of its pod has returned (the pod
\* is not in Pods when the UpdatePod takes the lock) leaves the pod out of Pods
C7_UpdateAfterDeleteLeavesPodDeleted ==
    [][\A req \in inflight :
          (req \notin inflight' /\ req.PodId \notin DOMAIN state.Pods)
              => req.PodId \notin DOMAIN state'.Pods]_vars

\* the request that has just returned was served by the handler op
Handled(op) == Returned /\ last'.op = op

\* the request fails the validation of the handler op
FailsValidation(op, req) ==
    \/ op = "create" /\ ~ValidateCreatePodRequest(req)
    \/ op = "update" /\ ~ValidateUpdatePodRequest(req)
    \/ op = "delete" /\ ~ValidateDeletePodRequest(req)

\* C8: a request that fails validation returns PodSpecError, an UpdatePod or
\* DeletePod of a pod id that is not in Pods returns PodNotFound, and in both cases
\* no policy operation is called and the State is unchanged
C8_RejectedRequestsLeaveState ==
    [][\A op \in {"create", "update", "delete"} :
          Handled(op) =>
              /\ FailsValidation(op, last'.req) =>
                    /\ last'.err = "PodSpecError"
                    /\ last'.calls = <<>>
                    /\ state' = state /\ nsalloc' = nsalloc /\ disk' = disk
              /\ (/\ ~FailsValidation(op, last'.req)
                  /\ op \in {"update", "delete"}
                  /\ last'.req.PodId \notin DOMAIN state.Pods) =>
                    /\ last'.err = "PodNotFound"
                    /\ last'.calls = <<>>
                    /\ state' = state /\ nsalloc' = nsalloc /\ disk' = disk]_vars

\* C9: under the NUMA and per-namespace allocators the number of CPUs recorded for
\* a Guaranteed container is the number of CPUs it asked for
C9_GuaranteedCpuCount ==
    allocator # "default" =>
        \A c \in GuaranteedIn(state) : Cardinality(CpusOf(state, c.CID)) = c.Cpus

\* the values of the leaves of the bucket mapped from a namespace
BucketCpus(a, namespace) ==
    IF namespace \in DOMAIN a.NamespaceToBucket
    THEN {Value(leaf) : leaf \in Range(getBucket(a, namespace))}
    ELSE {}

\* C10: under the per-namespace allocators every CPU recorded for a Guaranteed
\* container lies in the bucket mapped from the namespace of its pod
C10_GuaranteedInNamespaceBucket ==
    allocator \in {"numa-namespace", "numa-namespace-exclusive"} =>
        \A c \in GuaranteedIn(state) :
            CpusOf(state, c.CID) \subseteq BucketCpus(nsalloc, state.Pods[c.PID].Namespace)

\* with a pod in Pods, an UpdatePod of another pod id was answered PodNotFound, or
\* an invalid UpdatePod of a pod in Pods was answered PodSpecError
C8_Witness ==
    /\ state.Pods # EmptyMap
    /\ last.op = "update"
    /\ \/ last.err = "PodNotFound" /\ last.pid \notin DOMAIN state.Pods
       \/ last.err = "PodSpecError" /\ last.pid \in DOMAIN state.Pods

\* a DeletePod or UpdatePod has just returned that passed validation and found its
\* pod in Pods
ServedKnownPod(op) ==
    /\ Handled(op)
    /\ ~FailsValidation(op, last'.req)
    /\ last'.req.PodId \in DOMAIN state.Pods

FailedCalls(calls) == {i \in DOMAIN calls : calls[i].err # "nil"}

CallsTo(calls, op, cid) == {i \in DOMAIN calls : calls[i].op = op /\ calls[i].cid = cid}

\* C11: DeletePod of a pod in Pods calls policy.delete once for every container of
\* the pod, in the order of its list, whether or not an earlier delete failed,
\* removes the pod from Pods, and returns an error iff a delete failed
C11_DeletePodDeletesEveryContainer ==
    [][ServedKnownPod("delete") =>
          LET cs == state.Pods[last'.req.PodId].Containers
              calls == last'.calls
          IN /\ Len(calls) = Len(cs)
             /\ \A i \in DOMAIN calls : calls[i].op = "delete" /\ calls[i].cid = cs[i].CID
             /\ last'.req.PodId \notin DOMAIN state'.Pods
             /\ (last'.err # "nil") <=> (FailedCalls(calls) # {})]_vars

\* a DeletePod returned in which the first delete failed and a second was made
C11_Witness ==
    /\ last.op = "delete"
    /\ Len(last.calls) = 2
    /\ last.calls[1].err # "nil"
    /\ last.err # "nil"
    /\ last.pid \notin DOMAIN state.Pods

CurIds(cur) == {cur[i].CID : i \in DOMAIN cur}

WantIds(want) == {want[i].ContainerId : i \in DOMAIN want}

\* the container records the request asks for
Wanted(want, pid) == {containerFromRequest(want[i], pid) : i \in DOMAIN want}

\* in the pod, not in the request
DeletedIds(cur, want) == CurIds(cur) \ WantIds(want)

\* in both, with a different record
UpdatedIds(cur, want, pid) ==
    {c.CID : c \in {x \in Range(cur) : x.CID \in WantIds(want) /\ x \notin Wanted(want, pid)}}

\* in the request, not in the pod
AddedIds(cur, want) == WantIds(want) \ CurIds(cur)

\* in both, with the same record
Unchanged(cur, want, pid) == Range(cur) \cap Wanted(want, pid)

PhaseOf(cid, cur, want) ==
    IF cid \in DeletedIds(cur, want) THEN 1 ELSE IF cid \in AddedIds(cur, want) THEN 3 ELSE 2

\* C12: UpdatePod calls the policy for the Deleted containers first (delete), then
\* for the Updated ones (delete, then assign), then for the Added ones (assign);
\* when no call fails it makes |Deleted|+|Updated| delete calls and
\* |Updated|+|Added| assign calls
C12_UpdatePodPhases ==
    [][ServedKnownPod("update") =>
          LET pid == last'.req.PodId
              cur == state.Pods[pid].Containers
              want == last'.req.Containers
              calls == last'.calls
              D == DeletedIds(cur, want)
              U == UpdatedIds(cur, want, pid)
              A == AddedIds(cur, want)
              deletes == {i \in DOMAIN calls : calls[i].op = "delete"}
              assigns == {i \in DOMAIN calls : calls[i].op = "assign"}
          IN /\ \A i \in DOMAIN calls :
                    /\ calls[i].cid \in D \cup U \cup A
                    /\ calls[i].cid \in D => calls[i].op = "delete"
                    /\ calls[i].cid \in A => calls[i].op = "assign"
                    /\ calls[i].op \in {"delete", "assign"}
             /\ \A i \in DOMAIN calls, j \in DOMAIN calls :
                    i < j => PhaseOf(calls[i].cid, cur, want) <= PhaseOf(calls[j].cid, cur, want)
             /\ \A cid \in U : \A i \in CallsTo(calls, "assign", cid) :
                    \E j \in CallsTo(calls, "delete", cid) : j < i
             /\ FailedCalls(calls) = {} =>
                    /\ Cardinality(deletes) = Cardinality(D) + Cardinality(U)
                    /\ Cardinality(assigns) = Cardinality(U) + Cardinality(A)]_vars

\* an UpdatePod returned without a failed call that deleted one container and
\* updated another
C12_Witness ==
    /\ last.op = "update"
    /\ FailedCalls(last.calls) = {}
    /\ Len(last.calls) = 3
    /\ last.calls[1].op = "delete"
    /\ last.calls[2].op = "delete"
    /\ last.calls[3].op = "assign"
    /\ last.calls[1].cid # last.calls[2].cid

\* the records of the request whose assign call succeeded
Assigned(calls, want, pid, ids) ==
    {c \in Wanted(want, pid) :
        /\ c.CID \in ids
        /\ \E i \in CallsTo(calls, "assign", c.CID) : calls[i].err = "nil"}

\* C13: after UpdatePod the container list of the pod holds the unchanged records,
\* the new records of the updated containers whose assign succeeded and the records
\* of the added containers whose assign succeeded, each once; when no call failed
\* its ids are the ids of the request, as many as the request has
C13_UpdatePodContainerList ==
    [][ServedKnownPod("update") =>
          LET pid == last'.req.PodId
              cur == state.Pods[pid].Containers
              want == last'.req.Containers
              calls == last'.calls
              new == state'.Pods[pid].Containers
          IN /\ Range(new) = Unchanged(cur, want, pid)
                    \cup Assigned(calls, want, pid, UpdatedIds(cur, want, pid))
                    \cup Assigned(calls, want, pid, AddedIds(cur, want))
             /\ Len(new) = Cardinality(Range(new))
             /\ FailedCalls(calls) = {} =>
                    /\ CurIds(new) = WantIds(want)
                    /\ Len(new) = Len(want)]_vars

\* an UpdatePod returned that kept one container as it was and added or updated
\* another
C13_Witness ==
    /\ last.op = "update"
    /\ last.pid \in DOMAIN state.Pods
    /\ Len(state.Pods[last.pid].Containers) = 2
    /\ Len(last.calls) \in {1, 2}
    /\ FailedCalls(last.calls) = {}

\* the records the request asks for, in the order of the request
Materialized(want, pid) == [i \in DOMAIN want |-> containerFromRequest(want[i], pid)]

\* C14: an UpdatePod whose request asks for the container records the pod has, in
\* the order the pod has them, calls no policy operation and leaves Pods,
\* Allocated, AvailableCPUs and the topology as they were
C14_UpdatePodSameListIsNoOp ==
    [][(/\ ServedKnownPod("update")
        /\ Materialized(last'.req.Containers, last'.req.PodId)
               = state.Pods[last'.req.PodId].Containers)
           => (last'.calls = <<>> /\ state' = state /\ nsalloc' = nsalloc)]_vars

\* an UpdatePod of a pod with a Guaranteed container returned that asked for the
\* list the pod has
C14_Witness ==
    /\ last.op = "update"
    /\ last.pid \in DOMAIN state.Pods
    /\ last.err \in {"nil", "RuntimeError"}
    /\ last.calls = <<>>
    /\ Materialized(last.req.Containers, last.pid) = state.Pods[last.pid].Containers
    /\ \E i \in DOMAIN state.Pods[last.pid].Containers :
           state.Pods[last.pid].Containers[i].QS = Guaranteed

\* C15: in UpdatePod every Deleted, Updated and Added container is processed
\* whether or not an earlier call failed (an Updated one is assigned iff its delete
\* succeeded), no container is cleared, and the error is RuntimeError if a policy
\* call failed, RuntimeError with the state file left as it was or nil with the
\* State written otherwise
C15_UpdatePodContinuesAfterFailure ==
    [][ServedKnownPod("update") =>
          LET pid == last'.req.PodId
              cur == state.Pods[pid].Containers
              want == last'.req.Containers
              calls == last'.calls
          IN /\ \A cid \in DeletedIds(cur, want) : Cardinality(CallsTo(calls, "delete", cid)) = 1
             /\ \A cid \in AddedIds(cur, want) : Cardinality(CallsTo(calls, "assign", cid)) = 1
             /\ \A cid \in UpdatedIds(cur, want, pid) :
                    /\ Cardinality(CallsTo(calls, "delete", cid)) = 1
                    /\ \A i \in CallsTo(calls, "delete", cid) :
                           Cardinality(CallsTo(calls, "assign", cid))
                               = IF calls[i].err = "nil" THEN 1 ELSE 0
             /\ \A i \in DOMAIN calls : calls[i].op # "clear"
             /\ last'.err \in {"nil", "RuntimeError"}
             /\ FailedCalls(calls) # {} => last'.err = "RuntimeError"
             /\ (FailedCalls(calls) = {} /\ last'.err = "RuntimeError") => disk' = disk
             /\ last'.err = "nil" => disk' = state']_vars

\* an UpdatePod returned RuntimeError in which a call failed and a later call, for
\* another container, was made
C15_Witness ==
    /\ last.op = "update"
    /\ last.err = "RuntimeError"
    /\ \E i \in FailedCalls(last.calls) :
           \E j \in DOMAIN last.calls : j > i /\ last.calls[j].cid # last.calls[i].cid

\* the environments of a request in which the write of the state file succeeds
WritingEnvs == {env \in Envs(allocator) : env.save}

\* C16: when the state file holds the State and the writes of the state file
\* succeed, it holds the State again after a CreatePod, UpdatePod or DeletePod has
\* returned, with or without an error
C16_PersistedStateEqualsMemory ==
    disk = state =>
        \A env \in WritingEnvs :
            /\ \A req \in ValidCreateRequests :
                   req.PodId \notin DOMAIN state.Pods =>
                       LET r == CreatePod(allocator, req, state, nsalloc, disk, env)
                       IN r.f = r.s
            /\ \A req \in ValidUpdateRequests :
                   req.PodId \in DOMAIN state.Pods =>
                       LET r == UpdatePod(allocator, req, state, nsalloc, disk, env)
                       IN r.f = r.s
            /\ \A req \in DeleteRequests :
                   req.PodId \in DOMAIN state.Pods =>
                       LET r == DeletePod(allocator, req, state, nsalloc, disk, env)
                       IN r.f = r.s

\* C17: a restart that reloads the saved State leaves the State and the
\* per-namespace allocator's NamespaceToBucket, BucketToNumContainers and
\* globalBucket as they were before the restart
C17_RestartKeepsStateAndAllocator ==
    [][(Handled("restart") /\ last'.err = "nil" /\ disk = state)
           => (state' = state /\ nsalloc' = nsalloc)]_vars

\* C18: a CreatePod or UpdatePod whose policy calls all succeeded and whose write of
\* the state file failed keeps the pod with the containers of the request, returns
\* RuntimeError and lists the allocations of the containers it assigned
C18_FailedSaveStillRepliesAllocations ==
    [][\A op \in {"create", "update"} :
          (/\ Handled(op)
           /\ ~FailsValidation(op, last'.req)
           /\ op = "update" => last'.req.PodId \in DOMAIN state.Pods
           /\ FailedCalls(last'.calls) = {}
           /\ last'.err # "nil")
              => /\ last'.err = "RuntimeError"
                 /\ last'.req.PodId \in DOMAIN state'.Pods
                 /\ CurIds(state'.Pods[last'.req.PodId].Containers)
                        = WantIds(last'.req.Containers)
                 /\ last'.res # "nil"
                 /\ {last'.res[i].ContainerID : i \in DOMAIN last'.res}
                        = {last'.calls[i].cid :
                               i \in {j \in DOMAIN last'.calls : last'.calls[j].op = "assign"}}]_vars

\* C19: LoadState on a state path that is a symbolic link returns ErrFileIsSymlink
\* and leaves the DaemonState it was called on as it was, whatever the link points
\* to; a daemon started on such a path holds the fresh DaemonState
C19_SymlinkStatePathRefused ==
    /\ \A content \in {disk, state, NewState} :
           LoadState(state, [symlink |-> TRUE, content |-> content])
               = [s |-> state, err |-> "ErrFileIsSymlink"]
    /\ (last.op = "restart" /\ last.err # "nil") =>
           (last.err = "ErrFileIsSymlink" /\ state = NewState)

\* the daemon was started on a state path that is a symbolic link to a state file
\* with a pod in it
C19_Witness ==
    /\ last.op = "restart"
    /\ last.err = "ErrFileIsSymlink"
    /\ disk.Pods # EmptyMap
    /\ state = NewState

\* the requests that create a pod without a Guaranteed container
NonGuaranteedCreateRequests ==
    {req \in ValidCreateRequests :
        \A i \in DOMAIN req.Containers :
            containerFromRequest(req.Containers[i], req.PodId).QS # Guaranteed}

\* C20: creating a pod of non-Guaranteed containers and deleting it changes neither
\* AvailableCPUs nor any NumAvailable of the topology, at the creation and at the
\* deletion, and under the Default and NUMA allocators it does not change Allocated
C20_NonGuaranteedLeavesCpusAlone ==
    \A req \in NonGuaranteedCreateRequests :
        req.PodId \notin DOMAIN state.Pods =>
            LET c == CreatePod(allocator, req, state, nsalloc, disk, HealthyEnv)
                d == DeletePod(allocator, DeleteRequest(req.PodId), c.s, c.a, c.f, HealthyEnv)
            IN c.err = "nil" =>
                  /\ c.s.AvailableCPUs = state.AvailableCPUs
                  /\ c.s.Topology = state.Topology
                  /\ d.s.AvailableCPUs = state.AvailableCPUs
                  /\ d.s.Topology = state.Topology
                  /\ allocator \in {"default", "numa"} =>
                         (c.s.Allocated = state.Allocated /\ d.s.Allocated = state.Allocated)

\* the DaemonState in which CreatePod assigns the first container of req
WithPod(s, req) ==
    [s EXCEPT !.Pods = MapPut(@, req.PodId,
                          [PID |-> req.PodId, Name |-> req.PodName,
                           Namespace |-> req.PodNamespace, Containers |-> <<>>])]

\* the takes a CreatePod served now would begin with: the state with the pod
\* recorded and the first container of the request
FirstTakes ==
    {[s |-> WithPod(state, req), c |-> containerFromRequest(req.Containers[1], req.PodId)] :
        req \in {r \in ValidCreateRequests : r.PodId \notin DOMAIN state.Pods}}

IsExclusive == allocator = "numa-namespace-exclusive"

\* C21: under the per-namespace allocators a Guaranteed take that fails because
\* the bucket of the namespace has too few available leaves changes neither
\* Allocated, nor the topology, nor NamespaceToBucket, BucketToNumContainers and
\* globalBucket
C21_FailedBucketTakeHasNoSideEffects ==
    \A x \in FirstTakes :
        x.c.QS = Guaranteed =>
            LET r == NamespaceTakeCpus(x.c, x.s, nsalloc, HealthyEnv, IsExclusive)
            IN r.err = "CpusNotAvailable" =>
                  /\ r.s.Allocated = x.s.Allocated
                  /\ r.s.Topology = x.s.Topology
                  /\ r.a = nsalloc

----------------------------------------------------------------------------
(* The topology on its own: calls of NumaTopology.Take and                 *)
(* NumaTopology.Return on the tree of state.Topology.  last holds the      *)
(* call that returned last and what it returned.                           *)

\* number of calls made on the topology
MaxTopologyCalls == 4

\* the numbers of CPUs asked of Take: none, up to all, and one more than all
TakeSizes == 0..(Cardinality(CpuIds) + 1)

\* the cpu ids given to Return: the ids of the machine and one it does not have
ReturnIds == CpuIds \cup {Cardinality(CpuIds)}

TopologyReply(op, arg, err, res) ==
    [op |-> op, pid |-> "", req |-> [PodId |-> "", arg |-> arg], err |-> err,
     res |-> res, calls |-> <<>>]

Called(t, reply) ==
    /\ state' = [state EXCEPT !.Topology = t]
    /\ last' = reply
    /\ nreq' = nreq + 1
    /\ UNCHANGED <<allocator, nsalloc, inflight, disk, stateMu, agent, events>>

\* NumaTopology.Take(n)
TakeCall ==
    /\ nreq < MaxTopologyCalls
    /\ \E n \in TakeSizes :
          LET Took(r) ==
                  Called(r.t, TopologyReply("Take", n,
                                            IF r.err THEN "ErrNotAvailable" ELSE "nil",
                                            r.cpus))
          IN Took(TopologyTake(state.Topology, n))

\* NumaTopology.Return(cpuID)
ReturnCall ==
    /\ nreq < MaxTopologyCalls
    /\ \E cpuID \in ReturnIds :
          LET Gave(r) ==
                  Called(r.t, TopologyReply("Return", cpuID,
                                            IF r.err THEN "ErrNotFound" ELSE "nil", <<>>))
          IN Gave(TopologyReturn(state.Topology, cpuID))

NextTopology == TakeCall \/ ReturnCall

SpecTopology == InitNuma /\ [][NextTopology]_vars

\* the sum invariant of a topology: leaves hold 0 or 1, inner nodes the sum of
\* their children
SumInvariant(t) ==
    \A n \in TreeNodes :
        IF IsLeaf(n) THEN t[n] \in {0, 1} ELSE t[n] = SumAvailable(t, Children(n))

\* the nodes of the subtree of a node, depth first in child order
RECURSIVE Preorder(_)
RECURSIVE PreorderOf(_)
PreorderOf(kids) ==
    IF kids = <<>> THEN <<>> ELSE Preorder(Head(kids)) \o PreorderOf(Tail(kids))

Preorder(node) == <<node>> \o PreorderOf(Children(node))

\* the place of a node in the depth-first order of the tree
PlaceOf(node) == CHOOSE i \in DOMAIN Preorder(TreeRoot) : Preorder(TreeRoot)[i] = node

\* the deepest node with NumAvailable >= n, the first in child order among the
\* equally deep ones
DeepestWith(t, n) ==
    CHOOSE x \in TreeNodes :
        /\ t[x] >= n
        /\ \A y \in TreeNodes :
              t[y] >= n => \/ Len(y) < Len(x)
                           \/ Len(y) = Len(x) /\ PlaceOf(x) <= PlaceOf(y)

\* the leaf that carries a cpu id
LeafWith(cpuID) == CHOOSE l \in LeavesWithValue(cpuID) : TRUE

TreeLeaves == {n \in TreeNodes : IsLeaf(n)}

\* a call of Take(n) or Return(cpuID) has just returned
TopologyCalled(op) == nreq' = nreq + 1 /\ last'.op = op

\* C22: on a topology with the sum invariant, Take(n) with 1 <= n <= NumAvailable
\* of the root returns n distinct CPUs whose leaves were available, lie below the
\* deepest node with NumAvailable >= n (the first in child order among equally
\* deep ones) and are listed depth first in child order, and exactly those
\* leaves become taken
C22_TakeFromDeepestNode ==
    [][(/\ TopologyCalled("Take")
        /\ SumInvariant(state.Topology)
        /\ last'.req.arg >= 1
        /\ last'.req.arg <= state.Topology[TreeRoot])
       => LET n == last'.req.arg
              cpus == last'.res
              top == DeepestWith(state.Topology, n)
          IN /\ last'.err = "nil"
             /\ Len(cpus) = n
             /\ \A i \in DOMAIN cpus, j \in DOMAIN cpus :
                   i < j => PlaceOf(LeafWith(cpus[i])) < PlaceOf(LeafWith(cpus[j]))
             /\ \A i \in DOMAIN cpus :
                   /\ cpus[i] \in CpuIds
                   /\ state.Topology[LeafWith(cpus[i])] = 1
                   /\ SubSeq(LeafWith(cpus[i]), 1, Len(top)) = top
             /\ \A l \in TreeLeaves :
                   state'.Topology[l] =
                       IF Value(l) \in Range(cpus) THEN 0 ELSE state.Topology[l]]_vars

\* a Take of two CPUs that found them under the second NUMA node because the
\* first had one CPU left
C22_Witness ==
    /\ last.op = "Take" /\ last.err = "nil"
    /\ last.req.arg = 2
    /\ last.res = <<2, 3>>
    /\ state.Topology[<<0>>] = 1
    /\ SumInvariant(state.Topology)

\* a Guaranteed container that asks for n CPUs
GuaranteedContainer(n) == [CID |-> "c1", PID |-> "p1", Name |-> "name", Cpus |-> n, QS |-> Guaranteed]

\* C23: Take(n) succeeds when n is NumAvailable of the root; when n is greater it
\* fails with ErrNotAvailable (CpusNotAvailable from the NUMA allocator) and
\* leaves NumAvailable of every node as it was
C23_TakeAllSucceedsTakeMoreFails ==
    [][TopologyCalled("Take")
       => /\ last'.req.arg = state.Topology[TreeRoot] => last'.err = "nil"
          /\ last'.req.arg > state.Topology[TreeRoot]
                => /\ last'.err = "ErrNotAvailable"
                   /\ state'.Topology = state.Topology
                   /\ NumaTakeCpus(GuaranteedContainer(last'.req.arg), state, nsalloc,
                                   HealthyEnv).err = "CpusNotAvailable"]_vars

\* a Take of the three CPUs that were left took them all
C23_Witness ==
    /\ last.op = "Take" /\ last.err = "nil"
    /\ last.req.arg = 3
    /\ Len(last.res) = 3
    /\ \A n \in TreeNodes : state.Topology[n] = 0

\* C24: Take(0) succeeds, returns no cpu id and leaves NumAvailable of every node
\* as it was
C24_TakeZeroReturnsEmpty ==
    [][(TopologyCalled("Take") /\ last'.req.arg = 0)
       => /\ last'.err = "nil"
          /\ last'.res = <<>>
          /\ state'.Topology = state.Topology]_vars

\* node is the leaf or one of the nodes above it, the root included
IsOnPathTo(node, leaf) == Len(node) <= Len(leaf) /\ SubSeq(leaf, 1, Len(node)) = node

\* C25: Return(cpuID) of a taken leaf adds one to NumAvailable of the leaf and of
\* every node above it and changes no other node; of a leaf that is not taken it
\* changes nothing, so a second Return changes nothing; of an unknown cpu id it
\* returns ErrNotFound and changes nothing
C25_ReturnOnlyTakenLeaf ==
    [][TopologyCalled("Return")
       => LET cpuID == last'.req.arg
              t == state.Topology
          IN IF cpuID \notin CpuIds
             THEN last'.err = "ErrNotFound" /\ state'.Topology = t
             ELSE /\ last'.err = "nil"
                  /\ IF t[LeafWith(cpuID)] = 0
                     THEN \A n \in TreeNodes :
                             state'.Topology[n] =
                                 IF IsOnPathTo(n, LeafWith(cpuID)) THEN t[n] + 1 ELSE t[n]
                     ELSE state'.Topology = t
                  /\ TopologyReturn(state'.Topology, cpuID).t = state'.Topology]_vars

\* CPUs 0 and 1 were taken by one call and CPU 0 was returned by the next
C25_Witness ==
    /\ nreq = 2
    /\ last.op = "Return" /\ last.err = "nil" /\ last.req.arg = 0
    /\ state.Topology[<<0, 0>>] = 1
    /\ state.Topology[<<0, 1>>] = 0
    /\ state.Topology[<<0>>] = 1
    /\ state.Topology[TreeRoot] = 3

----------------------------------------------------------------------------
(* The default allocator on its own: calls of DefaultAllocator.takeCpus    *)
(* and DefaultAllocator.freeCpus for Guaranteed containers on a            *)
(* DaemonState whose AvailableCPUs is what getValues read from the         *)
(* cpuset.cpus of the host.                                                *)

\* number of calls made on the allocator
MaxAllocatorCalls == 3

\* the bucket lists of the cpuset.cpus contents "0-3", "0-1,3" and "0,2-3"
HostCpusets ==
    { <<[StartCPU |-> 0, EndCPU |-> 3]>>,
      <<[StartCPU |-> 0, EndCPU |-> 1], [StartCPU |-> 3, EndCPU |-> 3]>>,
      <<[StartCPU |-> 0, EndCPU |-> 0], [StartCPU |-> 2, EndCPU |-> 3]>> }

\* the Guaranteed containers the allocator is called for
GuaranteedContainers ==
    {[CID |-> cid, PID |-> "p1", Name |-> "name", Cpus |-> k, QS |-> Guaranteed] :
        cid \in AllCids, k \in 1..Cardinality(CpuIds)}

\* the outcomes of the cgroup write of a call
WriteEnvs ==
    {[bad |-> b, ord |-> <<"c1", "c2", "c3">>, save |-> TRUE] : b \in {{}} \cup {FailingCids}}

InitDefaultAllocator ==
    /\ allocator = "default"
    /\ \E avail \in HostCpusets : state = [NewState EXCEPT !.AvailableCPUs = avail]
    /\ disk = state
    /\ \E n \in BucketChoices : nsalloc = NewNumaPerNamespaceAllocator(n)
    /\ inflight = {}
    /\ last = Reply("none", DeleteRequest(""), "nil", "nil", <<>>)
    /\ nreq = 0
    /\ stateMu = {}
    /\ agent = NewAgent
    /\ events = <<>>

AllocatorCalled(op, c, r) ==
    /\ state' = r.s
    /\ last' = [op |-> op, pid |-> c.PID, req |-> [PodId |-> c.PID, arg |-> c],
                err |-> r.err, res |-> "nil", calls |-> <<>>]
    /\ nreq' = nreq + 1
    /\ UNCHANGED <<allocator, nsalloc, inflight, disk, stateMu, agent, events>>

\* DefaultAllocator.takeCpus(c, s)
TakeCpusCall ==
    /\ nreq < MaxAllocatorCalls
    /\ \E c \in GuaranteedContainers, env \in WriteEnvs :
          AllocatorCalled("takeCpus", c, DefaultTakeCpus(c, state, nsalloc, env))

\* DefaultAllocator.freeCpus(c, s)
FreeCpusCall ==
    /\ nreq < MaxAllocatorCalls
    /\ \E c \in GuaranteedContainers, env \in WriteEnvs :
          AllocatorCalled("freeCpus", c, DefaultFreeCpus(c, state, nsalloc, env))

NextDefaultAllocator == TakeCpusCall \/ FreeCpusCall

SpecDefaultAllocator == InitDefaultAllocator /\ [][NextDefaultAllocator]_vars

\* a call of the allocator has just returned
AllocatorReturned(op) == nreq' = nreq + 1 /\ last'.op = op

\* the length of a range of AvailableCPUs
RangeLen(b) == b.EndCPU - b.StartCPU + 1

\* C26: takeCpus of the default allocator for a Guaranteed container that asks
\* for k CPUs records [start, start+k-1] of the first range of AvailableCPUs
\* longer than k and advances the start of that range by k; with no range longer
\* than k it fails with CpusNotAvailable and leaves AvailableCPUs and Allocated as
\* they were; no range of AvailableCPUs becomes empty
C26_DefaultTakeFirstLongerRange ==
    [][AllocatorReturned("takeCpus")
       => LET c == last'.req.arg
              avail == state.AvailableCPUs
              fit == {i \in DOMAIN avail : RangeLen(avail[i]) > c.Cpus}
          IN /\ IF fit = {}
                THEN /\ last'.err = "CpusNotAvailable"
                     /\ state'.AvailableCPUs = avail
                     /\ state'.Allocated = state.Allocated
                ELSE LET i == CHOOSE x \in fit : \A y \in fit : x <= y
                     IN /\ last'.err # "CpusNotAvailable"
                        /\ state'.Allocated =
                              MapPut(state.Allocated, c.CID,
                                     <<[StartCPU |-> avail[i].StartCPU,
                                        EndCPU |-> avail[i].StartCPU + c.Cpus - 1]>>)
                        /\ state'.AvailableCPUs =
                              [avail EXCEPT ![i].StartCPU = @ + c.Cpus]
             /\ \A i \in DOMAIN state'.AvailableCPUs :
                   RangeLen(state'.AvailableCPUs[i]) >= 1]_vars

\* on the host cpuset "0,2-3" a take of one CPU skipped the range of CPU 0 and
\* took CPU 2
C26_Witness ==
    /\ last.op = "takeCpus" /\ last.err = "nil"
    /\ last.req.arg.Cpus = 1
    /\ state.Allocated[last.req.arg.CID] = <<[StartCPU |-> 2, EndCPU |-> 2]>>
    /\ state.AvailableCPUs = <<[StartCPU |-> 0, EndCPU |-> 0], [StartCPU |-> 3, EndCPU |-> 3]>>

\* C27: freeCpus of the default allocator for a Guaranteed container with the
\* recorded range [s, e] removes its entry from Allocated and sets the start of a
\* range of AvailableCPUs to s exactly when that start is e + 1; no range is
\* added, removed or changed at its end, and with no abutting range
\* AvailableCPUs is as it was
C27_DefaultFreeAbuttingRange ==
    [][(AllocatorReturned("freeCpus") /\ last'.req.arg.CID \in DOMAIN state.Allocated)
       => LET c == last'.req.arg
              v == state.Allocated[c.CID][1]
              avail == state.AvailableCPUs
          IN /\ last'.err = "nil"
             /\ state'.Allocated = MapDel(state.Allocated, c.CID)
             /\ DOMAIN state'.AvailableCPUs = DOMAIN avail
             /\ \A i \in DOMAIN avail :
                   /\ state'.AvailableCPUs[i].EndCPU = avail[i].EndCPU
                   /\ state'.AvailableCPUs[i].StartCPU =
                         IF avail[i].StartCPU = v.EndCPU + 1 THEN v.StartCPU
                         ELSE avail[i].StartCPU
             /\ (\A i \in DOMAIN avail : avail[i].StartCPU # v.EndCPU + 1)
                   => state'.AvailableCPUs = avail]_vars

\* two containers took CPU 0 and CPU 1 of the host cpuset "0-3" and the first was
\* freed: no range abuts CPU 0, and AvailableCPUs stays 2-3
C27_Witness ==
    /\ last.op = "freeCpus" /\ last.err = "nil"
    /\ nreq = 3
    /\ DOMAIN state.Allocated = AllCids \ {last.req.arg.CID, "c3"}
    /\ \E cid \in DOMAIN state.Allocated :
          state.Allocated[cid] = <<[StartCPU |-> 1, EndCPU |-> 1]>>
    /\ state.AvailableCPUs = <<[StartCPU |-> 2, EndCPU |-> 3]>>

\* the CPUs recorded in Allocated, for all containers
AllocatedSet(s) == UNION {CpusOf(s, cid) : cid \in DOMAIN s.Allocated}

\* C28: under the default allocator the CPUs of AvailableCPUs and the CPUs in
\* Allocated are together the CPUs the daemon started with, none of them twice;
\* with no pod left AvailableCPUs covers them all
C28_DefaultKeepsEveryCpu ==
    /\ AvailableSet(state) \cup AllocatedSet(state) = AvailableSet(NewState)
    /\ AvailableSet(state) \cap AllocatedSet(state) = {}
    /\ \A c1 \in DOMAIN state.Allocated, c2 \in DOMAIN state.Allocated :
          c1 # c2 => CpusOf(state, c1) \cap CpusOf(state, c2) = {}
    /\ state.Pods = EmptyMap => AvailableSet(state) = AvailableSet(NewState)

\* C29: every container id that is a key of Allocated is the id of a container
\* in the list of a pod in Pods
C29_AllocatedBelongsToPod ==
    \A cid \in DOMAIN state.Allocated : \E c \in ContainersIn(state) : c.CID = cid

\* C30: a take for a pod whose namespace has no bucket maps the namespace to
\* bucket globalBucket mod NumBuckets and adds one to globalBucket; a take for a
\* pod whose namespace has a bucket keeps the bucket and globalBucket; the
\* buckets of the other namespaces are kept in both cases
C30_NewNamespaceRoundRobin ==
    \A x \in FirstTakes :
        LET namespace == x.s.Pods[x.c.PID].Namespace
            r == NamespaceTakeCpus(x.c, x.s, nsalloc, HealthyEnv, IsExclusive)
        IN /\ namespace \in DOMAIN r.a.NamespaceToBucket
           /\ IF namespace \in DOMAIN nsalloc.NamespaceToBucket
              THEN /\ r.a.NamespaceToBucket = nsalloc.NamespaceToBucket
                   /\ r.a.globalBucket = nsalloc.globalBucket
              ELSE /\ r.a.NamespaceToBucket[namespace] =
                          nsalloc.globalBucket % nsalloc.NumBuckets
                   /\ r.a.globalBucket = nsalloc.globalBucket + 1
                   /\ \A other \in DOMAIN nsalloc.NamespaceToBucket :
                          r.a.NamespaceToBucket[other] = nsalloc.NamespaceToBucket[other]
                   /\ DOMAIN r.a.NamespaceToBucket =
                          DOMAIN nsalloc.NamespaceToBucket \cup {namespace}

\* the third namespace to get a bucket got the bucket of the first: ns1 holds
\* bucket 1 from the second mapping, and ns2 was mapped to bucket 0 by the create
\* that has just returned
C30_Witness ==
    /\ last.op = "create" /\ last.err = "nil" /\ last.req.PodNamespace = "ns2"
    /\ nsalloc.globalBucket = nsalloc.NumBuckets + 1
    /\ "ns1" \in DOMAIN nsalloc.NamespaceToBucket
    /\ nsalloc.NamespaceToBucket["ns1"] = 1
    /\ nsalloc.NamespaceToBucket["ns2"] = 0

----------------------------------------------------------------------------
(* The buckets of the per-namespace allocators *)

\* the bucket counts a daemon can be started with on this machine: one bucket,
\* counts that divide the leaves, counts that do not, and more buckets than leaves
BucketCounts == 1..(Len(GetLeafs) + 1)

\* an allocator of numBuckets buckets in which namespace holds the bucket index
AllocatorWithBucket(numBuckets, namespace, index) ==
    [NewNumaPerNamespaceAllocator(numBuckets) EXCEPT
        !.NamespaceToBucket = MapPut(@, namespace, index)]

\* leaves from..to of GetLeafs, counted from 0, `to` excluded
LeafSlice(from, to) == {GetLeafs[k + 1] : k \in {k \in 0..(Len(GetLeafs) - 1) : from <= k /\ k < to}}

\* the slice the bucket `index` of `numBuckets` is to hold
BucketSlice(numBuckets, index) ==
    LET size == Len(GetLeafs) \div numBuckets
    IN IF index < numBuckets - 1
       THEN LeafSlice(index * size, (index + 1) * size)
       ELSE LeafSlice((numBuckets - 1) * size, Len(GetLeafs))

\* the leaves of getBucket are distinct and in the order of GetLeafs
InLeafOrder(bucket) ==
    \A i, j \in DOMAIN bucket :
        i < j => \E k, l \in DOMAIN GetLeafs :
                    k < l /\ GetLeafs[k] = bucket[i] /\ GetLeafs[l] = bucket[j]

\* C31: with L leaves and B buckets, bucket i < B-1 is the slice of floor(L/B)
\* leaves of GetLeafs that starts at i*floor(L/B), and bucket B-1 is every leaf
\* from (B-1)*floor(L/B) on; the buckets are pairwise disjoint and cover the
\* leaves. It holds for every bucket count and for the buckets the namespaces of
\* the running daemon hold.
C31_BucketsPartitionLeaves ==
    /\ \A B \in BucketCounts :
          /\ \A i \in 0..(B - 1) :
                LET bucket == getBucket(AllocatorWithBucket(B, "ns1", i), "ns1")
                IN /\ Range(bucket) = BucketSlice(B, i)
                   /\ InLeafOrder(bucket)
                   /\ i < B - 1 => Len(bucket) = Len(GetLeafs) \div B
          /\ \A i, j \in 0..(B - 1) :
                i # j => Range(getBucket(AllocatorWithBucket(B, "ns1", i), "ns1")) \cap
                         Range(getBucket(AllocatorWithBucket(B, "ns1", j), "ns1")) = {}
          /\ UNION {Range(getBucket(AllocatorWithBucket(B, "ns1", i), "ns1")) :
                        i \in 0..(B - 1)} = Range(GetLeafs)
    /\ allocator \in {"numa-namespace", "numa-namespace-exclusive"} =>
          \A namespace \in DOMAIN nsalloc.NamespaceToBucket :
              Range(getBucket(nsalloc, namespace)) =
                  BucketSlice(nsalloc.NumBuckets, nsalloc.NamespaceToBucket[namespace])

\* two namespaces hold the two buckets of the machine, and a pod of each has
\* containers admitted
C31_Witness ==
    /\ allocator \in {"numa-namespace", "numa-namespace-exclusive"}
    /\ DOMAIN nsalloc.NamespaceToBucket = {"ns1", "ns2"}
    /\ nsalloc.NamespaceToBucket["ns1"] # nsalloc.NamespaceToBucket["ns2"]
    /\ Range(getBucket(nsalloc, "ns1")) \cap Range(getBucket(nsalloc, "ns2")) = {}
    /\ \E p1, p2 \in DOMAIN state.Pods :
          /\ state.Pods[p1].Namespace = "ns1" /\ state.Pods[p2].Namespace = "ns2"
          /\ state.Pods[p1].Containers # <<>> /\ state.Pods[p2].Containers # <<>>

\* the containers of the pods of State whose namespace holds the bucket
AdmittedInBucket(s, a, bucket) ==
    {<<p, i>> \in {<<p, i>> \in (DOMAIN s.Pods) \X (1..2) : i \in DOMAIN s.Pods[p].Containers} :
        /\ s.Pods[p].Namespace \in DOMAIN a.NamespaceToBucket
        /\ a.NamespaceToBucket[s.Pods[p].Namespace] = bucket}

\* C32: under the per-namespace allocators, after any sequence of takes and
\* frees, failed ones included, BucketToNumContainers of a bucket is the number
\* of admitted containers whose pod namespace is mapped to the bucket and is
\* never negative, and a namespace is mapped only while the count of its bucket
\* is above zero
C32_BucketCountsAdmittedContainers ==
    allocator \in {"numa-namespace", "numa-namespace-exclusive"} =>
        /\ \A bucket \in 0..(nsalloc.NumBuckets - 1) :
              /\ MapGet(nsalloc.BucketToNumContainers, bucket, 0) >= 0
              /\ MapGet(nsalloc.BucketToNumContainers, bucket, 0) =
                     Cardinality(AdmittedInBucket(state, nsalloc, bucket))
        /\ \A namespace \in DOMAIN nsalloc.NamespaceToBucket :
              MapGet(nsalloc.BucketToNumContainers,
                     nsalloc.NamespaceToBucket[namespace], 0) > 0

\* the non-Guaranteed containers of the pods of namespace that hold an allocation
CommonPoolContainers(s, namespace) ==
    {c \in UNION {Range(s.Pods[p].Containers) :
                    p \in {p \in DOMAIN s.Pods : s.Pods[p].Namespace = namespace}} :
        c.QS # Guaranteed /\ c.CID \in DOMAIN s.Allocated}

\* what C33 asks of one Guaranteed take x that returned r, and of the free of
\* the same container, which returned f
RepinnedAndRestored(x, r, f) ==
    LET namespace == x.s.Pods[x.c.PID].Namespace
        taken == CPUSetFromBucketList(r.s.Allocated[x.c.CID])
    IN \A d \in CommonPoolContainers(x.s, namespace) :
          /\ d.CID \in DOMAIN r.s.Allocated
          /\ CPUSetFromBucketList(r.s.Allocated[d.CID]) =
                 CPUSetFromBucketList(x.s.Allocated[d.CID]) \ taken
          /\ f.err = "nil"
          /\ d.CID \in DOMAIN f.s.Allocated
          /\ CPUSetFromBucketList(f.s.Allocated[d.CID]) =
                 CPUSetFromBucketList(r.s.Allocated[d.CID]) \cup taken
          /\ f.s.Allocated[d.CID] = x.s.Allocated[d.CID]

\* C33: in exclusive mode a successful Guaranteed take in a namespace removes
\* exactly the taken CPUs from the allocation of every non-Guaranteed container
\* of the namespace admitted before it, freeing the Guaranteed container adds
\* exactly those CPUs back, and take followed by free restores the allocations
C33_ExclusiveTakeThenFreeRestores ==
    IsExclusive =>
        \A x \in FirstTakes :
            x.c.QS = Guaranteed =>
                LET Freed(r) ==
                        r.err = "nil" =>
                            RepinnedAndRestored(
                                x, r, NamespaceFreeCpus(x.c, r.s, r.a, HealthyEnv, TRUE))
                IN Freed(NamespaceTakeCpus(x.c, x.s, nsalloc, HealthyEnv, TRUE))

----------------------------------------------------------------------------
(* CreatePod: rollback and reply *)

\* CreatePod requests with three containers, for a pod the daemon does not hold
ThreeContainerRequests ==
    {CreateRequest(p, ns, <<ContainerInfo("c1", r1), ContainerInfo("c2", r2),
                            ContainerInfo("c3", r3)>>) :
        p \in PodIds \ DOMAIN state.Pods, ns \in {"ns1"},
        r1 \in ValidResources, r2 \in ValidResources, r3 \in ValidResources}

\* the cgroup write of at most one of the three containers fails
RollbackEnvs ==
    {HealthyEnv} \cup {[HealthyEnv EXCEPT !.bad = {c}] : c \in {"c1", "c2", "c3"}}

\* the position of the failed assign in the calls of a CreatePod, 0 when none failed
FailedAssign(calls) ==
    IF \E k \in DOMAIN calls : calls[k].op = "assign" /\ calls[k].err # "nil"
    THEN CHOOSE k \in DOMAIN calls : calls[k].op = "assign" /\ calls[k].err # "nil"
    ELSE 0

\* the calls of a CreatePod whose assign failed at container i: the assigns of
\* containers 1..i in request order, then one clear for each of 1..i-1 and no
\* other call; reverse tells which container is cleared first
RolledBack(req, calls, err, pods, reverse) ==
    LET i == FailedAssign(calls)
    IN i > 0 =>
          /\ Len(calls) = i + (i - 1)
          /\ \A k \in 1..i :
                /\ calls[k].op = "assign"
                /\ calls[k].cid = req.Containers[k].ContainerId
          /\ \A k \in 1..(i - 1) :
                /\ calls[i + k].op = "clear"
                /\ calls[i + k].cid =
                       req.Containers[IF reverse THEN i - k ELSE k].ContainerId
          /\ req.PodId \notin DOMAIN pods
          /\ err = calls[i].err

\* CreatePod applied now to every three-container request, while no pod is held
RollbackOfThree(reverse) ==
    state.Pods = EmptyMap =>
        \A req \in ThreeContainerRequests, env \in RollbackEnvs :
            LET Checked(r) == RolledBack(req, r.calls, r.err, r.s.Pods, reverse)
            IN Checked(CreatePod(allocator, req, state, nsalloc, disk, env))

\* C34 as stated: when the assign of the i-th container of a CreatePod fails,
\* clear is called exactly once for each of containers 1..i-1, in reverse order
\* (container i-1 first), and for no other container; the pod is removed and the
\* error of the assign is returned
C34_RollbackInReverseOrder ==
    /\ last.op = "create" /\ last.calls # <<>> =>
          RolledBack(last.req, last.calls, last.err, state.Pods, TRUE)
    /\ RollbackOfThree(TRUE)

\* C34 amended: the clears are made in request order, container 1 first
C34_RollbackInRequestOrder ==
    /\ last.op = "create" /\ last.calls # <<>> =>
          RolledBack(last.req, last.calls, last.err, state.Pods, FALSE)
    /\ RollbackOfThree(FALSE)

\* a CreatePod has just been rolled back after its second assign failed, and a
\* three-container CreatePod served now fails at its third container and clears two
C34_Witness ==
    /\ last.op = "create" /\ FailedAssign(last.calls) = 2
    /\ Len(last.calls) = 3 /\ last.calls[3].op = "clear"
    /\ state.Pods = EmptyMap
    /\ \E req \in ThreeContainerRequests, env \in RollbackEnvs :
          LET Third(r) == FailedAssign(r.calls) = 3 /\ Len(r.calls) = 5
          IN Third(CreatePod(allocator, req, state, nsalloc, disk, env))

----------------------------------------------------------------------------
(* UpdatePod: the containers of the Updated set *)

\* C35: for every container of the Updated set of an UpdatePod the delete of the
\* current record is called, once, before the assign of the wanted one; the
\* assign is not called when the delete failed; after either failure the daemon
\* goes on with the remaining containers (each of them has its delete call) and
\* the failure is recorded in the error of the reply
C35_UpdatedDeleteBeforeAssign ==
    [][ServedKnownPod("update") =>
          LET cur == state.Pods[last'.req.PodId].Containers
              want == last'.req.Containers
              calls == last'.calls
          IN \A cid \in UpdatedIds(cur, want, last'.req.PodId) :
                /\ Cardinality(CallsTo(calls, "delete", cid)) = 1
                /\ \A d \in CallsTo(calls, "delete", cid) :
                      IF calls[d].err # "nil"
                      THEN /\ CallsTo(calls, "assign", cid) = {}
                           /\ last'.err # "nil"
                      ELSE /\ CallsTo(calls, "assign", cid) = {d + 1}
                           /\ calls[d + 1].err # "nil" => last'.err # "nil"]_vars

\* an UpdatePod returned in which the delete of one Updated container failed, no
\* assign was made for it, and a container after it was deleted and assigned
C35_Witness ==
    /\ last.op = "update" /\ last.err # "nil"
    /\ \E d \in DOMAIN last.calls :
          /\ last.calls[d].op = "delete" /\ last.calls[d].err # "nil"
          /\ CallsTo(last.calls, "assign", last.calls[d].cid) = {}
          /\ d + 2 \in DOMAIN last.calls
          /\ last.calls[d + 1].op = "delete" /\ last.calls[d + 1].err = "nil"
          /\ last.calls[d + 2].op = "assign"
          /\ last.calls[d + 2].cid = last.calls[d + 1].cid

\* C36: a CreatePod that succeeds has called assign exactly once for every
\* container of the request, in request order, the pod holds the containers in
\* that order, and the reply has one entry per container, in that order, whose
\* CPU set is Allocated[container_id] of the State when CreatePod returns
C36_CreateReplyMatchesState ==
    [][Handled("create") /\ last'.err = "nil" =>
          LET want == last'.req.Containers
              calls == last'.calls
              res == last'.res
              pid == last'.req.PodId
          IN /\ Len(calls) = Len(want)
             /\ \A k \in DOMAIN want :
                   /\ calls[k].op = "assign"
                   /\ calls[k].cid = want[k].ContainerId
             /\ pid \in DOMAIN state'.Pods
             /\ Len(state'.Pods[pid].Containers) = Len(want)
             /\ \A k \in DOMAIN want :
                   state'.Pods[pid].Containers[k] = containerFromRequest(want[k], pid)
             /\ Len(res) = Len(want)
             /\ \A k \in DOMAIN want :
                   /\ res[k].ContainerID = want[k].ContainerId
                   /\ res[k] = AllocatedContainerResource(state', want[k].ContainerId)]_vars

----------------------------------------------------------------------------
(* The QoS class on its own *)

\* largest CPU count and memory amount of a ResourceInfo
MaxResource == 2
\* number of classifications that are followed
MaxQoSCalls == 3

\* QoSFromLimit
QoSFromLimit(limitCpu, requestCpu) ==
    IF limitCpu > 0 \/ requestCpu > 0
    THEN IF limitCpu = requestCpu THEN Guaranteed
         ELSE IF requestCpu < limitCpu THEN Burstable
         ELSE BestEffort
    ELSE BestEffort

\* the ResourceInfo records that pass validation
ResourceInfos ==
    {info \in [RequestedCpus : 0..MaxResource, LimitCpus : 0..MaxResource,
               RequestedMemory : 0..MaxResource, LimitMemory : 0..MaxResource] :
        ValidateResourceInfo(info)}

QoSReply(op, arg, qs) ==
    [op |-> op, pid |-> "", req |-> [PodId |-> "", arg |-> arg], err |-> "nil",
     res |-> qs, calls |-> <<>>]

Classified(reply) ==
    /\ last' = reply
    /\ nreq' = nreq + 1
    /\ UNCHANGED <<allocator, state, nsalloc, inflight, disk, stateMu, agent, events>>

\* containerFromRequest on the ContainerInfo of a validated request
ContainerFromRequestCall ==
    /\ nreq < MaxQoSCalls
    /\ \E info \in ResourceInfos :
          Classified(QoSReply("containerFromRequest", info,
                              containerFromRequest(ContainerInfo("c1", info), "p1").QS))

\* QoSFromLimit on a CPU limit and a CPU request
QoSFromLimitCall ==
    /\ nreq < MaxQoSCalls
    /\ \E limitCpu \in 0..MaxResource, requestCpu \in 0..MaxResource :
          Classified(QoSReply("QoSFromLimit",
                              [LimitCpus |-> limitCpu, RequestedCpus |-> requestCpu],
                              QoSFromLimit(limitCpu, requestCpu)))

NextQoS == ContainerFromRequestCall \/ QoSFromLimitCall

SpecQoS == InitDefault /\ [][NextQoS]_vars

\* the class C37 gives to a ResourceInfo
StatedQoS(r) ==
    IF /\ r.RequestedCpus = r.LimitCpus /\ r.RequestedCpus > 0
       /\ r.RequestedMemory = r.LimitMemory /\ r.RequestedMemory > 0
    THEN Guaranteed
    ELSE IF r.RequestedCpus < r.LimitCpus \/ r.RequestedMemory < r.LimitMemory
    THEN Burstable
    ELSE BestEffort

\* C37: a container is Guaranteed iff requested = limit > 0 for CPU and for
\* memory, otherwise Burstable iff requested < limit for CPU or for memory,
\* otherwise BestEffort; QoSFromLimit, which sees the CPU values only, gives the
\* class of a container whose memory request and limit are equal and positive
C37_QoSClassification ==
    /\ last.op = "containerFromRequest" => last.res = StatedQoS(last.req.arg)
    /\ last.op = "QoSFromLimit" =>
          last.res = StatedQoS([RequestedCpus |-> last.req.arg.RequestedCpus,
                                LimitCpus |-> last.req.arg.LimitCpus,
                                RequestedMemory |-> 1, LimitMemory |-> 1])

----------------------------------------------------------------------------
(* The daemon lock: requests of concurrent goroutines of the RPC server   *)
(* validate, wait at d.stateMu.Lock(), run and return through the deferred *)
(* d.stateMu.Unlock()                                                      *)

\* requests that arrive
MaxLockRequests == 3

GuaranteedLists ==
    { <<ContainerInfo("c1", GuaranteedResources(1))>>,
      <<ContainerInfo("c1", GuaranteedResources(1)), ContainerInfo("c2", GuaranteedResources(1))>> }

LockCreateRequests ==
    {CreateRequest("p1", "ns1", l) : l \in GuaranteedLists \cup {<<>>}}

LockUpdateRequests ==
    {UpdateRequest(p, l) : p \in PodIds, l \in {<<ContainerInfo("c1", GuaranteedResources(1))>>}}
        \cup {UpdateRequest("p1", <<>>)}

LockDeleteRequests == {DeleteRequest(p) : p \in {"p1", "p2", ""}}

\* requests that have come to the daemon so far
Arrived == nreq + Cardinality(inflight) + Cardinality(stateMu)

\* the daemon process has not ended
Alive == Running /\ last.op # "fatal"

\* the goroutine of the request blocks in d.stateMu.Lock()
Waits(op, req) ==
    /\ inflight' = inflight \cup {[id |-> Arrived + 1, op |-> op, req |-> req]}
    /\ UNCHANGED <<allocator, state, nsalloc, last, nreq, disk, stateMu, agent, events>>

\* a return before d.stateMu.Lock()
ReturnsUnlocked(op, req, err) ==
    /\ Refused(op, req, err)
    /\ UNCHANGED <<inflight, stateMu, agent, events>>

\* a deferred Unlock that is skipped when the handler returns an error
UnlockOnSuccess(mu, err) == IF err = "nil" THEN {} ELSE mu

\* defer d.stateMu.Unlock(): runs on every return, whatever it returns
DeferredUnlock(mu, err) == {}

\* Daemon.CreatePod up to d.stateMu.Lock()
CreatePodArrives ==
    /\ Alive /\ Arrived < MaxLockRequests
    /\ \E req \in LockCreateRequests :
          IF ~ValidateCreatePodRequest(req)
          THEN ReturnsUnlocked("create", req, "PodSpecError")
          ELSE Waits("create", req)

\* Daemon.DeletePod up to d.stateMu.Lock()
DeletePodArrives ==
    /\ Alive /\ Arrived < MaxLockRequests
    /\ \E req \in LockDeleteRequests :
          IF ~ValidateDeletePodRequest(req)
          THEN ReturnsUnlocked("delete", req, "PodSpecError")
          ELSE Waits("delete", req)

\* the holder of stateMu writes d.state.Pods in its critical section
WritesPods(w) == w.op \in {"create", "update"} \/ w.req.PodId \in DOMAIN state.Pods

\* Daemon.UpdatePod up to d.stateMu.Lock(): d.state.Pods is read without the
\* lock. The read sees the map before or after the holder's writes (the holder's
\* body is one step, so both orders occur).
UpdatePodArrives ==
    /\ Alive /\ Arrived < MaxLockRequests
    /\ \E req \in LockUpdateRequests :
          IF ~ValidateUpdatePodRequest(req)
          THEN ReturnsUnlocked("update", req, "PodSpecError")
          ELSE IF req.PodId \notin DOMAIN state.Pods
          THEN ReturnsUnlocked("update", req, "PodNotFound")
          ELSE Waits("update", req)

\* the same unlocked read of d.state.Pods while the holder of stateMu writes the
\* map: the Go runtime may end the process ("concurrent map read and map write")
UpdatePodRacesWithWriter ==
    /\ Alive /\ Arrived < MaxLockRequests
    /\ \E w \in stateMu : WritesPods(w)
    /\ \E req \in LockUpdateRequests :
          /\ ValidateUpdatePodRequest(req)
          /\ last' = Reply("fatal", req, "concurrent map read and map write", "nil", <<>>)
          /\ UNCHANGED <<allocator, state, nsalloc, inflight, nreq, disk, stateMu,
                         agent, events>>

\* d.stateMu.Lock() returns in the goroutine of request id
Lock(id) ==
    /\ Alive /\ stateMu = {}
    /\ \E w \in inflight :
          /\ w.id = id
          /\ stateMu' = {w}
          /\ inflight' = inflight \ {w}
    /\ UNCHANGED <<allocator, state, nsalloc, last, nreq, disk, agent, events>>

\* the body of a handler has run with outcome r, and the handler returns
ReturnsLocked(w, r) ==
    /\ Ran(w.op, w.req, r)
    /\ stateMu' = DeferredUnlock(stateMu, r.err)
    /\ UNCHANGED <<inflight, agent, events>>

\* Daemon.CreatePod from d.stateMu.Lock() to its return
CreatePodReturns ==
    /\ Alive /\ nreq' = nreq + 1
    /\ \E w \in stateMu, env \in Envs(allocator) :
          /\ w.op = "create"
          /\ \E r \in {CreatePod(allocator, w.req, state, nsalloc, disk, env)} :
                ReturnsLocked(w, r)

\* Daemon.DeletePod from d.stateMu.Lock() to its return
DeletePodReturns ==
    /\ Alive /\ nreq' = nreq + 1
    /\ \E w \in stateMu, env \in Envs(allocator) :
          /\ w.op = "delete"
          /\ IF w.req.PodId \notin DOMAIN state.Pods
             THEN /\ Refused("delete", w.req, "PodNotFound")
                  /\ stateMu' = DeferredUnlock(stateMu, "PodNotFound")
                  /\ UNCHANGED <<inflight, agent, events>>
             ELSE \E r \in {DeletePod(allocator, w.req, state, nsalloc, disk, env)} :
                     ReturnsLocked(w, r)

\* Daemon.UpdatePod from d.stateMu.Lock() to its return
UpdatePodReturns ==
    /\ Alive /\ nreq' = nreq + 1
    /\ \E w \in stateMu, env \in Envs(allocator) :
          /\ w.op = "update"
          /\ \E r \in {UpdatePod(allocator, w.req, state, nsalloc, disk, env)} :
                ReturnsLocked(w, r)

HandlerReturns == CreatePodReturns \/ DeletePodReturns \/ UpdatePodReturns

NextLock ==
    \/ CreatePodArrives \/ DeletePodArrives \/ UpdatePodArrives
    \/ UpdatePodRacesWithWriter
    \/ \E id \in 1..MaxLockRequests : Lock(id)
    \/ CreatePodReturns \/ DeletePodReturns \/ UpdatePodReturns

SpecLock == InitDefault /\ [][NextLock]_vars

\* sync.Mutex hands the lock to a goroutine that keeps waiting (starvation mode),
\* and a handler body has no unbounded loop and no blocking call but file writes
SpecLockFair ==
    /\ SpecLock
    /\ \A id \in 1..MaxLockRequests : SF_vars(Lock(id))
    /\ WF_vars(HandlerReturns)

Waiting(id) == \E w \in inflight : w.id = id

Holding(id) == \E w \in stateMu : w.id = id

\* request id has left the queue of the lock and the lock: ids are given once, so
\* a request that waited gets here only by acquiring stateMu and returning
Completed(id) == ~Waiting(id) /\ ~Holding(id)

\* the handler that holds stateMu returns in this step
HolderReturns ==
    /\ stateMu # {}
    /\ Returned
    /\ \E w \in stateMu : last'.op = w.op /\ last'.req = w.req
    /\ last'.err # "PodSpecError"
    /\ ~(last'.op = "update" /\ last'.err = "PodNotFound")

\* the lock is not held when the handler that took it has returned
C38_ReleasedOnEveryReturn == [][HolderReturns => stateMu' = {}]_vars

\* C38: every CreatePod, UpdatePod and DeletePod call that acquires stateMu
\* releases it on every return path, and under fair scheduling every request
\* that waits for the lock acquires it and then returns
C38_LockReleasedAndAcquired ==
    /\ C38_ReleasedOnEveryReturn
    /\ \A id \in 1..MaxLockRequests : Waiting(id) ~> Completed(id)

----------------------------------------------------------------------------
(* The agent: pod events of the orchestrator turned into requests to the daemon *)

\* pod events the agent handles
MaxAgentEvents == 4

maxUnsuccesfullAttempts == 3

MaxInt32 == 2147483647

\* a resource.Quantity: value * 10^scale
Quantity(value, scale) == [value |-> value, scale |-> scale]

\* Quantity.AsInt64: the value and whether it is representable, which a quantity
\* written with a negative scale ("500m") is not
AsInt64(q) == IF q.scale >= 0 THEN <<q.value, TRUE>> ELSE <<0, FALSE>>

\* the characters of the strings that are namespaces or prefixes
Chars(str) ==
    CASE str = "" -> <<>>
      [] str = "ns" -> <<"n", "s">>
      [] str = "ns1" -> <<"n", "s", "1">>
      [] str = "kube-system" -> <<"k", "u", "b", "e", "-", "s", "y", "s", "t", "e", "m">>

\* strings.HasPrefix
HasPrefix(str, prefix) ==
    LET s == Chars(str)
        p == Chars(prefix)
    IN Len(p) <= Len(s) /\ SubSeq(s, 1, Len(p)) = p

\* the namespace prefix the agent was started with
namespacePrefix == "ns"

\* corev1.Container with requests equal to limits
PodContainer(name, cpu) ==
    [Name |-> name,
     Requests |-> [cpu |-> cpu, memory |-> Quantity(1, 0)],
     Limits |-> [cpu |-> cpu, memory |-> Quantity(1, 0)]]

ContainerStatus(name, cid, ready) == [Name |-> name, ContainerID |-> cid, Ready |-> ready]

\* corev1.Pod: the fields the agent reads
Pod(uid, namespace, deleting, containers, statuses) ==
    [UID |-> uid, Name |-> "pod", Namespace |-> namespace, DeletionTimestamp |-> deleting,
     Containers |-> containers, ContainerStatuses |-> statuses]

\* pod objects of update events: p1 with one or two containers, ready, starting,
\* with a status missing, or being deleted; p2 with a whole or a fractional cpu
\* quantity; p3 in a namespace the agent does not watch
UpdatedPods ==
    LET one == Quantity(1, 0)
        app == <<PodContainer("app", one)>>
        two == <<PodContainer("app", one), PodContainer("sidecar", one)>>
    IN { Pod("p1", "ns1", FALSE, app, <<ContainerStatus("app", "c1", TRUE)>>),
         Pod("p1", "ns1", FALSE, two,
             <<ContainerStatus("app", "c1", TRUE), ContainerStatus("sidecar", "c2", TRUE)>>),
         Pod("p1", "ns1", FALSE, two, <<ContainerStatus("app", "c1", TRUE)>>),
         Pod("p1", "ns1", FALSE, app, <<ContainerStatus("app", "", FALSE)>>),
         Pod("p1", "ns1", TRUE, app, <<ContainerStatus("app", "c1", TRUE)>>),
         Pod("p2", "ns1", FALSE, app, <<ContainerStatus("app", "c3", TRUE)>>),
         Pod("p2", "ns1", FALSE, <<PodContainer("app", Quantity(500, -3))>>,
             <<ContainerStatus("app", "c3", TRUE)>>),
         Pod("p3", "kube-system", FALSE, app, <<ContainerStatus("app", "c4", TRUE)>>) }

\* pod objects of delete events
DeletedPods ==
    {p \in UpdatedPods :
        \/ p.DeletionTimestamp
        \/ (p.UID \in {"p2", "p3"} /\ p.Containers[1].Requests.cpu.scale = 0)}

\* getContainerResources: cpus and memory of a resource list, or an error
getContainerResources(resourceList) ==
    LET cpus == AsInt64(resourceList.cpu)
        memory == AsInt64(resourceList.memory)
    IN IF ~cpus[2] \/ cpus[1] > MaxInt32 \/ cpus[1] < 0
       THEN [cpus |-> 0, memory |-> 0, err |-> "ErrNotRepresentable"]
       ELSE IF ~memory[2] \/ memory[1] > MaxInt32 \/ memory[1] < 0
       THEN [cpus |-> 0, memory |-> 0, err |-> "ErrNotRepresentable"]
       ELSE [cpus |-> cpus[1], memory |-> memory[1], err |-> "nil"]

\* getContainerInfo
getContainerInfo(container) ==
    LET requested == getContainerResources(container.Requests)
        limit == getContainerResources(container.Limits)
    IN IF requested.err # "nil" THEN [err |-> requested.err]
       ELSE IF limit.err # "nil" THEN [err |-> limit.err]
       ELSE [err |-> "nil",
             info |-> [ContainerName |-> container.Name,
                       Resources |-> [RequestedCpus |-> requested.cpus,
                                      LimitCpus |-> limit.cpus,
                                      RequestedMemory |-> requested.memory,
                                      LimitMemory |-> limit.memory]]]

\* getContainerID: the id in the first status with the name, "" when there is none
getContainerID(name, pod) ==
    LET st == pod.ContainerStatuses
        hits == {i \in DOMAIN st : st[i].Name = name}
    IN IF hits = {} THEN ""
       ELSE st[CHOOSE i \in hits : \A j \in hits : i <= j].ContainerID

\* createPodResources: the loop over pod.Spec.Containers from container i on, with
\* the ContainerInfo and the int32 sums so far
RECURSIVE createPodResourcesFrom(_, _, _, _)
createPodResourcesFrom(pod, i, containerInfo, sums) ==
    IF i > Len(pod.Containers)
    THEN [err |-> "nil", containerInfo |-> containerInfo, resourceInfo |-> sums]
    ELSE LET c == getContainerInfo(pod.Containers[i])
         IN IF c.err # "nil" THEN [err |-> c.err]
            ELSE LET cInfo == [ContainerId |-> getContainerID(pod.Containers[i].Name, pod),
                               ContainerName |-> c.info.ContainerName,
                               Resources |-> c.info.Resources]
                     next == [f \in DOMAIN sums |-> sums[f] + cInfo.Resources[f]]
                 IN IF \E f \in DOMAIN next : next[f] > MaxInt32
                    THEN [err |-> "ErrCountingOverflow"]
                    ELSE createPodResourcesFrom(pod, i + 1, Append(containerInfo, cInfo), next)

createPodResources(pod) == createPodResourcesFrom(pod, 1, <<>>, BestEffortResources)

\* GetCreatePodRequest
GetCreatePodRequest(pod) ==
    LET r == createPodResources(pod)
    IN IF r.err # "nil" THEN [err |-> r.err]
       ELSE [err |-> "nil",
             in |-> [PodId |-> pod.UID, PodName |-> pod.Name, PodNamespace |-> pod.Namespace,
                     Resources |-> r.resourceInfo, Containers |-> r.containerInfo]]

\* GetUpdatePodRequest
GetUpdatePodRequest(pod) ==
    LET r == createPodResources(pod)
    IN IF r.err # "nil" THEN [err |-> r.err]
       ELSE [err |-> "nil",
             in |-> [PodId |-> pod.UID, Resources |-> r.resourceInfo,
                     Containers |-> r.containerInfo]]

\* GetDeletePodRequest
GetDeletePodRequest(pod) == [PodId |-> pod.UID]

\* Agent.successfulAttempt
successfulAttempt(ag) == [ag EXCEPT !.numConsecutiveUnsuccessfulAttempts = 0]

\* Agent.unsuccessfulAttempt: klog.Fatal ends the agent process
unsuccessfulAttempt(ag) ==
    LET n == ag.numConsecutiveUnsuccessfulAttempts + 1
    IN [ag EXCEPT !.numConsecutiveUnsuccessfulAttempts = n,
                  !.exited = n >= maxUnsuccesfullAttempts]

\* the end of Agent.update and Agent.delete: err != nil or not
attempted(ag, err) == IF err # "nil" THEN unsuccessfulAttempt(ag) ELSE successfulAttempt(ag)

\* Agent.update up to the call of the daemon: whether all containers are ready
allContainersReady(p) ==
    \A i \in DOMAIN p.ContainerStatuses :
        ~(p.ContainerStatuses[i].ContainerID = "" \/ ~p.ContainerStatuses[i].Ready)

\* Agent.update: the early returns
updateIgnores(p) ==
    \/ ~HasPrefix(p.Namespace, namespacePrefix)
    \/ p.DeletionTimestamp
    \/ ~allContainersReady(p)
    \/ Len(p.ContainerStatuses) # Len(p.Containers)

\* Agent.update: the request it builds for a pod it does not ignore, and the RPC it
\* is for
updateRequest(ag, p) ==
    IF p.UID \in ag.addedPods
    THEN [rpc |-> "UpdatePod", op |-> "update", built |-> GetUpdatePodRequest(p)]
    ELSE [rpc |-> "CreatePod", op |-> "create", built |-> GetCreatePodRequest(p)]

\* an Agent.update that sends CreatePod for a pod and does not remember it
updatedForgetful(ag, p, sent, err) == attempted(ag, err)

\* Agent.update after the RPC sent has returned err: a pod CreatePod was sent for is
\* recorded in addedPods, whatever the daemon answered
updated(ag, p, sent, err) ==
    attempted(IF sent = "CreatePod" THEN [ag EXCEPT !.addedPods = @ \cup {p.UID}] ELSE ag, err)

\* Agent.delete after DeletePod has returned err
deleted(ag, p, err) == attempted([ag EXCEPT !.addedPods = @ \ {p.UID}], err)

\* the daemon's side of an RPC of the agent: the handler of the request
DaemonHandles(op, req) ==
    IF ~(CASE op = "create" -> ValidateCreatePodRequest(req)
           [] op = "update" -> ValidateUpdatePodRequest(req)
           [] op = "delete" -> ValidateDeletePodRequest(req))
    THEN Refused(op, req, "PodSpecError")
    ELSE IF op # "create" /\ req.PodId \notin DOMAIN state.Pods
    THEN Refused(op, req, "PodNotFound")
    ELSE \E env \in Envs(allocator) :
            \E r \in { CASE op = "create" -> CreatePod(allocator, req, state, nsalloc, disk, env)
                         [] op = "update" -> UpdatePod(allocator, req, state, nsalloc, disk, env)
                         [] op = "delete" -> DeletePod(allocator, req, state, nsalloc, disk, env) } :
                Ran(op, req, r)

\* what the log keeps of a pod event: the pod object, the RPC sent if any, the error
\* the handler ended with, and whether the daemon had the pod when the event came
Event(type, p, rpc, err) ==
    [type |-> type, pod |-> p, rpc |-> rpc, err |-> err,
     known |-> p.UID \in DOMAIN state.Pods]

\* a pod event that ends without an RPC and without an attempt counted
EventIgnored(type, p) ==
    /\ events' = Append(events, Event(type, p, "none", "nil"))
    /\ UNCHANGED <<allocator, state, nsalloc, inflight, last, nreq, disk, stateMu, agent>>

\* Agent.update on a pod event of the informer
AgentUpdate ==
    /\ ~agent.exited /\ Len(events) < MaxAgentEvents
    /\ \E p \in UpdatedPods :
          IF updateIgnores(p) THEN EventIgnored("update", p)
          ELSE LET u == updateRequest(agent, p)
               IN IF u.built.err # "nil"
                  THEN /\ agent' = updated(agent, p, "none", u.built.err)
                       /\ events' = Append(events, Event("update", p, "none", u.built.err))
                       /\ UNCHANGED <<allocator, state, nsalloc, inflight, last, nreq,
                                      disk, stateMu>>
                  ELSE /\ DaemonHandles(u.op, u.built.in)
                       /\ agent' = updated(agent, p, u.rpc, last'.err)
                       /\ events' = Append(events, Event("update", p, u.rpc, last'.err))
                       /\ UNCHANGED <<inflight, stateMu>>

\* Agent.delete on a pod event of the informer
AgentDelete ==
    /\ ~agent.exited /\ Len(events) < MaxAgentEvents
    /\ \E p \in DeletedPods :
          IF ~HasPrefix(p.Namespace, namespacePrefix) THEN EventIgnored("delete", p)
          ELSE /\ DaemonHandles("delete", GetDeletePodRequest(p))
               /\ agent' = deleted(agent, p, last'.err)
               /\ events' = Append(events, Event("delete", p, "DeletePod", last'.err))
               /\ UNCHANGED <<inflight, stateMu>>

NextAgent == AgentUpdate \/ AgentDelete

SpecAgent == InitDefault /\ [][NextAgent]_vars

\* the update events in which all containers are ready and which the agent does not
\* pass over for the namespace or the deletion timestamp of the pod
AllReadyUpdate(e) == e.type = "update" /\ ~updateIgnores(e.pod)

\* the delete events of pods in the namespaces the agent watches
PodDelete(e) == e.type = "delete" /\ HasPrefix(e.pod.Namespace, namespacePrefix)

\* CreatePod was sent for the pod of event i after the last delete event of that pod
\* before i
CreatedSinceDelete(i) ==
    \E j \in 1..(i - 1) :
        /\ events[j].pod.UID = events[i].pod.UID
        /\ events[j].rpc = "CreatePod"
        /\ \A k \in (j + 1)..(i - 1) :
              ~(PodDelete(events[k]) /\ events[k].pod.UID = events[i].pod.UID)

\* the RPC of the create-once rule for event i
RpcOfRule(i) == IF CreatedSinceDelete(i) THEN "UpdatePod" ELSE "CreatePod"

\* the request of the pod of an event can be built: its quantities are whole numbers
\* of int32
Buildable(e) == createPodResources(e.pod).err = "nil"

C40_UpdateOnlyAfterAcceptedCreate ==
    \A i \in DOMAIN events :
        /\ events[i].rpc = "UpdatePod" => events[i].known
        /\ \A j \in 1..(i - 1) :
              ( /\ events[j].rpc = "CreatePod" /\ events[j].err # "nil"
                /\ events[i].pod.UID = events[j].pod.UID
                /\ events[i].rpc \in {"CreatePod", "UpdatePod"}
                /\ \A k \in (j + 1)..(i - 1) :
                      events[k].pod.UID = events[j].pod.UID => events[k].rpc = "none" )
              => events[i].rpc = "CreatePod"

====
